---- MODULE Spec2Model ----
(***************************************************************************)
(* Docker Web Management Interface: the sliding-window rate limiter        *)
(* (backend/app/rate_limit.py), the stack-directory registry and the       *)
(* prune/disk-usage part of DockerService (backend/app/docker_service.py)  *)
(* and the handlers of backend/app/main.py that use them.                  *)
(*                                                                         *)
(* Strings the code takes apart or joins (user names, stack names) are     *)
(* sequences of one-character strings; fixed words that are only compared  *)
(* whole (an action name, a file name) are one-element sequences.          *)
(***************************************************************************)
EXTENDS Integers, Sequences, FiniteSets, TLC

\* ------------------------------------------------------------------ bounds
MaxLimit == 2
MaxWindow == 2
MaxTime == 3
MaxChecks == 4
NumThreads == 2
MaxThreadCalls == 3
MaxUnused == 1
MaxLines == 2
MaxShellData == 1
MaxShellInput == 1
MaxRequests == 3

None == "None"

VARIABLES
    \* RateLimiter (rate_limit.py)
    limit,            \* self.limit
    window_seconds,   \* self.window_seconds
    events,           \* self._events: key string -> deque of timestamps
    clock,            \* time.monotonic()
    lastCheck,        \* outcome of the last completed check (what the caller sees)
    admitted,         \* per (user, action): timestamps of the checks that succeeded
    nChecks,          \* number of checks started
    \* concurrent callers of RateLimiter.check (threadpool workers)
    tpc,              \* per thread: position inside check
    tnow,             \* per thread: local `now`
    tcall,            \* per thread: <<user, action>> of the running check
    \* stack registry (docker_service.py) and the filesystem under it
    stack_root,       \* DockerService.stack_root, a path
    fs,               \* the filesystem: path -> directory or file with its text
    last,             \* the last DockerService stack call and what it returned
    \* the engine and the /cleanup handler (main.py)
    engine,           \* per category: number of unused objects the engine holds
    cleanup,          \* the /cleanup request in progress, then its response
    \* one request or websocket session (main.py)
    sess,             \* its inputs and the position of its handler
    conn,             \* the WebSocket: application_state and the client peer
    hist,             \* what has happened in the session, in order
    src,              \* the engine-side source: log stream or compose subprocess
    shell,            \* the shell bridge: exec socket and the two pumps
    \* ConfigManager (config_manager.py)
    config            \* self._data

rlVars == <<limit, window_seconds, events, clock, lastCheck, admitted, nChecks>>
thVars == <<tpc, tnow, tcall>>
fsVars == <<stack_root, fs, last>>
clVars == <<engine, cleanup>>
wsVars == <<sess, conn, hist, src, shell>>
cfVars == <<config>>
vars == <<limit, window_seconds, events, clock, lastCheck, admitted, nChecks,
          tpc, tnow, tcall, stack_root, fs, last, engine, cleanup,
          sess, conn, hist, src, shell, config>>

\* ------------------------------------------------------------ rate limiter
Users == {<<"u">>, <<"u", ":", "x">>}
Actions == {<<"s">>, <<"x", ":", "s">>}
CleanupAction == <<"cleanup">>
Pairs == Users \X Actions
Threads == 1..NumThreads

\* key = f"{user}:{action}"
Key(user, action) == user \o <<":">> \o action

\* self._events[key] on a defaultdict(deque): a missing key reads as an empty deque
EventsOf(ev, key) == IF key \in DOMAIN ev THEN ev[key] ELSE <<>>

\* the defaultdict after self._events[key] has been evaluated and then set to q
SetEvents(ev, key, q) == [k \in DOMAIN ev \cup {key} |-> IF k = key THEN q ELSE ev[k]]

\* faulty variant of Expired: the subtraction the wrong way round, so nothing ever expires
ExpiredReversed(now, t, win) == t - now > win

\* now - events[0] > self.window_seconds
Expired(now, t, win) == now - t > win

\* while events and now - events[0] > self.window_seconds: events.popleft()
RECURSIVE EvictHead(_, _, _)
EvictHead(q, now, win) ==
    IF q # <<>> /\ Expired(now, Head(q), win)
    THEN EvictHead(Tail(q), now, win)
    ELSE q

\* faulty variant of Full: > for >=, which admits one check too many
FullOffByOne(q, lim) == Len(q) > lim

\* len(events) >= self.limit
Full(q, lim) == Len(q) >= lim

\* faulty variant of CheckOutcome: a rejected check is recorded as well
CheckOutcomeRecordsRejected(ev, lim, win, user, action, now) ==
    LET q == EvictHead(EventsOf(ev, Key(user, action)), now, win)
    IN  IF Full(q, lim)
        THEN [status |-> 429, q |-> Append(q, now)]
        ELSE [status |-> 200, q |-> Append(q, now)]

\* RateLimiter.check as a function of the limiter's state: the HTTP status the
\* caller sees and the deque of the key afterwards
CheckOutcome(ev, lim, win, user, action, now) ==
    LET q == EvictHead(EventsOf(ev, Key(user, action)), now, win)
    IN  IF Full(q, lim)
        THEN [status |-> 429, q |-> q]
        ELSE [status |-> 200, q |-> Append(q, now)]

\* ------------------------------------------------- paths and the filesystem
\* A path is a sequence of segments; a segment is a sequence of characters (a
\* stack name) or a one-element sequence holding a fixed file name.
Seg(fileName) == <<fileName>>
DotDot == <<".", ".">>

\* faulty variant of Candidates: the two docker-compose names in the other order
CandidatesYamlFirst ==
    <<"docker-compose.yaml", "docker-compose.yml", "compose.yml", "compose.yaml">>

\* ("docker-compose.yml", "docker-compose.yaml", "compose.yml", "compose.yaml")
Candidates == <<"docker-compose.yml", "docker-compose.yaml", "compose.yml", "compose.yaml">>
CreatedComposeName == "docker-compose.yaml"
EnvName == ".env"
Texts == {"x", "y"}

DirNode == [kind |-> "dir", text |-> ""]
FileNode(text) == [kind |-> "file", text |-> text]

\* str.split("/") as pathlib does before it drops the empty and "." segments
RECURSIVE SplitSlash(_)
SplitSlash(s) ==
    IF s = <<>> THEN << <<>> >>
    ELSE LET rest == SplitSlash(Tail(s))
         IN  IF Head(s) = "/"
             THEN << <<>> >> \o rest
             ELSE << <<Head(s)>> \o Head(rest) >> \o Tail(rest)

\* PurePosixPath(s).parts without the root
Parts(s) == SelectSeq(SplitSlash(s), LAMBDA c : c # <<>> /\ c # <<".">>)
IsAbs(s) == s # <<>> /\ Head(s) = "/"

\* Path(name).name
PathName(s) == IF Parts(s) = <<>> THEN <<>> ELSE Parts(s)[Len(Parts(s))]

\* base / name: an absolute right operand replaces the base
Join(base, name) == IF IsAbs(name) THEN Parts(name) ELSE base \o Parts(name)

Parent(p) == IF p = <<>> THEN <<>> ELSE SubSeq(p, 1, Len(p) - 1)

IsDirAt(f, at) == at = <<>> \/ (at \in DOMAIN f /\ f[at].kind = "dir")
ExistsAt(f, at) == at = <<>> \/ at \in DOMAIN f

\* The kernel's walk of a path: every component is looked up in a directory that
\* must exist, ".." goes to the parent, the last component may be missing.
RECURSIVE Walk(_, _, _)
Walk(f, cur, rest) ==
    IF rest = <<>> THEN [ok |-> TRUE, at |-> cur]
    ELSE IF ~IsDirAt(f, cur) THEN [ok |-> FALSE, at |-> cur]
    ELSE IF Head(rest) = DotDot THEN Walk(f, Parent(cur), Tail(rest))
    ELSE Walk(f, Append(cur, Head(rest)), Tail(rest))

Resolve(f, path) == Walk(f, <<>>, path)

\* Path.exists(), Path.is_dir()
Exists(f, path) == Resolve(f, path).ok /\ ExistsAt(f, Resolve(f, path).at)
IsDir(f, path) == Resolve(f, path).ok /\ IsDirAt(f, Resolve(f, path).at)

\* Path.mkdir(parents=True, exist_ok=True): ok, or FileExistsError/NotADirectoryError
RECURSIVE MkdirWalk(_, _, _)
MkdirWalk(f, cur, rest) ==
    IF ~IsDirAt(f, cur) THEN [ok |-> FALSE, fs |-> f, made |-> {}]
    ELSE IF rest = <<>> THEN [ok |-> TRUE, fs |-> f, made |-> {}]
    ELSE IF Head(rest) = DotDot THEN MkdirWalk(f, Parent(cur), Tail(rest))
    ELSE LET nxt == Append(cur, Head(rest))
         IN  IF nxt \in DOMAIN f
             THEN MkdirWalk(f, nxt, Tail(rest))
             ELSE LET r == MkdirWalk((nxt :> DirNode) @@ f, nxt, Tail(rest))
                  IN  [ok |-> r.ok, fs |-> r.fs, made |-> r.made \cup {nxt}]

\* A path that does not resolve while one of its ancestors is missing is created
\* from the outermost missing ancestor inwards, so "root/.." creates root.
Mkdirs(f, path) ==
    LET r == MkdirWalk(f, <<>>, path)
    IN  IF r.ok THEN r ELSE [ok |-> FALSE, fs |-> f, made |-> {}]

\* Path.write_text(text)
WriteText(f, path, text) ==
    LET r == Resolve(f, path)
    IN  IF r.ok /\ IsDirAt(f, Parent(r.at)) /\ ~IsDirAt(f, r.at)
        THEN [ok |-> TRUE, fs |-> (r.at :> FileNode(text)) @@ f, at |-> r.at]
        ELSE [ok |-> FALSE, fs |-> f, at |-> r.at]

\* Path.read_text()
ReadText(f, path) == f[Resolve(f, path).at].text

\* Path.unlink()
Unlink(f, path) ==
    LET at == Resolve(f, path).at
    IN  [q \in DOMAIN f \ {at} |-> f[q]]

\* ------------------------------------------------ stack registry: DockerService
\* stack names a caller can pass, the spec's examples among them
Name_a == <<"a">>
Name_b == <<"b">>
Name_ab == <<"a", "b">>
StackNames ==
    { Name_a, DotDot, <<>>, <<"a", "/", "b">>, <<".", ".", "/", "a">>, <<"a", "/">> }

DefaultRoot == << <<"r">> >>

\* _validate_stack_name: the sanitized name, or ValueError("Invalid stack name")
ValidateStackName(name) ==
    LET candidate == PathName(name)
    IN  IF candidate # name \/ candidate = <<>>
        THEN [ok |-> FALSE, name |-> candidate]
        ELSE [ok |-> TRUE, name |-> candidate]

\* _compose_file_for_directory: directory / candidate of the first candidate that
\* exists, in the order of the tuple; <<>> stands for None
RECURSIVE FirstCandidate(_, _, _)
FirstCandidate(f, directory, i) ==
    IF i > Len(Candidates) THEN <<>>
    ELSE IF Exists(f, Append(directory, Seg(Candidates[i])))
         THEN Append(directory, Seg(Candidates[i]))
         ELSE FirstCandidate(f, directory, i + 1)

ComposeFileForDirectory(f, directory) == FirstCandidate(f, directory, 1)

\* the paths _compose_file_for_directory asks the filesystem about
RECURSIVE ProbedUpTo(_, _, _)
ProbedUpTo(f, directory, i) ==
    IF i > Len(Candidates) THEN {}
    ELSE {Append(directory, Seg(Candidates[i]))} \cup
         (IF Exists(f, Append(directory, Seg(Candidates[i]))) THEN {}
          ELSE ProbedUpTo(f, directory, i + 1))

\* _compose_file_for_stack: no validation of stack_name; <<>> raises errors.NotFound
ComposeFileForStack(f, root, stack_name) == ComposeFileForDirectory(f, Join(root, stack_name))

NoCall == [op |-> "none", name |-> <<>>, status |-> "none", touched |-> {},
           written |-> {}, compose_file |-> <<>>, path |-> <<>>,
           compose_content |-> "", env_content |-> "", overwrite |-> FALSE,
           stacks |-> <<>>]

\* what a call that failed before touching anything returns
Failed(op, name, status, touched) ==
    [NoCall EXCEPT !.op = op, !.name = name, !.status = status, !.touched = touched]

\* faulty variant of Conflicts: the overwrite flag read the wrong way round
ConflictsInverted(f, stack_dir, overwrite) == Exists(f, stack_dir) /\ overwrite

\* if stack_dir.exists() and not overwrite: raise ValueError(...)
Conflicts(f, stack_dir, overwrite) == Exists(f, stack_dir) /\ ~overwrite

\* create_stack(name, compose_content, env_content, overwrite)
CreateStackResult(f, root, name, compose_content, env_content, overwrite) ==
    LET v == ValidateStackName(name)
        stack_dir == Join(root, v.name)
        compose_path == Append(stack_dir, Seg(CreatedComposeName))
        env_path == Append(stack_dir, Seg(EnvName))
        made == Mkdirs(f, stack_dir)
        w1 == WriteText(made.fs, compose_path, compose_content)
        w2 == IF env_content # None THEN WriteText(w1.fs, env_path, env_content)
              ELSE [ok |-> TRUE, fs |-> w1.fs, at |-> <<>>]
        call == [NoCall EXCEPT !.op = "create", !.name = name,
                               !.compose_content = compose_content,
                               !.env_content = env_content, !.overwrite = overwrite]
    IN  IF ~v.ok
        THEN [fs |-> f, ret |-> [call EXCEPT !.status = "Validation"]]
        ELSE IF Conflicts(f, stack_dir, overwrite)
        THEN [fs |-> f, ret |-> [call EXCEPT !.status = "Conflict", !.touched = {stack_dir}]]
        ELSE IF ~made.ok
        THEN [fs |-> f, ret |-> [call EXCEPT !.status = "OSError", !.touched = {stack_dir}]]
        ELSE IF ~w1.ok
        THEN [fs |-> made.fs,
              ret |-> [call EXCEPT !.status = "OSError", !.touched = {stack_dir, compose_path},
                                   !.written = made.made]]
        ELSE IF ~w2.ok
        THEN [fs |-> w1.fs,
              ret |-> [call EXCEPT !.status = "OSError",
                                   !.touched = {stack_dir, compose_path, env_path},
                                   !.written = made.made \cup {w1.at}]]
        ELSE [fs |-> w2.fs,
              ret |-> [call EXCEPT !.status = "ok",
                         !.touched = {stack_dir, compose_path} \cup
                                     (IF env_content # None THEN {env_path} ELSE {}),
                         !.written = made.made \cup {w1.at} \cup
                                     (IF env_content # None THEN {w2.at} ELSE {}),
                         !.path = stack_dir, !.compose_file = compose_path]]

\* read_stack_files(stack_name)
ReadStackFilesResult(f, root, stack_name) ==
    LET compose_file == ComposeFileForStack(f, root, stack_name)
        env_file == Append(Parent(compose_file), Seg(EnvName))
        probed == ProbedUpTo(f, Join(root, stack_name), 1)
    IN  IF compose_file = <<>>
        THEN Failed("read", stack_name, "NotFound", probed)
        ELSE [NoCall EXCEPT !.op = "read", !.name = stack_name, !.status = "ok",
                            !.touched = probed \cup {env_file},
                            !.compose_file = compose_file,
                            !.compose_content = ReadText(f, compose_file),
                            !.env_content = IF Exists(f, env_file)
                                            THEN ReadText(f, env_file) ELSE ""]

\* faulty variant of UpdateEnv: an existing .env is left in place when no content is given
UpdateEnvKeep(f, env_file, env_content) ==
    IF env_content # None THEN WriteText(f, env_file, env_content).fs ELSE f

\* if env_content is not None: env_file.write_text(env_content)
\* elif env_file.exists(): env_file.unlink()
UpdateEnv(f, env_file, env_content) ==
    IF env_content # None THEN WriteText(f, env_file, env_content).fs
    ELSE IF Exists(f, env_file) THEN Unlink(f, env_file)
    ELSE f

\* update_stack_files(stack_name, compose_content, env_content)
UpdateStackFilesResult(f, root, stack_name, compose_content, env_content) ==
    LET compose_file == ComposeFileForStack(f, root, stack_name)
        env_file == Append(Parent(compose_file), Seg(EnvName))
        probed == ProbedUpTo(f, Join(root, stack_name), 1)
        w1 == WriteText(f, compose_file, compose_content)
        f2 == UpdateEnv(w1.fs, env_file, env_content)
        envTouched == env_content # None \/ Exists(w1.fs, env_file)
        call == [NoCall EXCEPT !.op = "update", !.name = stack_name,
                               !.compose_content = compose_content,
                               !.env_content = env_content]
    IN  IF compose_file = <<>>
        THEN [fs |-> f, ret |-> [call EXCEPT !.status = "NotFound", !.touched = probed]]
        ELSE [fs |-> f2,
              ret |-> [call EXCEPT !.status = "ok",
                         !.touched = probed \cup {env_file},
                         !.written = {w1.at} \cup
                                     (IF envTouched THEN {Resolve(f, env_file).at} ELSE {}),
                         !.compose_file = compose_file]]

\* compose_ps / compose_up / compose_down / compose_up_stream / compose_down_stream:
\* resolve the compose file, then run `docker compose -f <compose_file> ...`
ComposeOps == {"ps", "up", "down", "up_stream", "down_stream"}
ComposeResult(f, root, op, stack_name) ==
    LET compose_file == ComposeFileForStack(f, root, stack_name)
        probed == ProbedUpTo(f, Join(root, stack_name), 1)
    IN  IF compose_file = <<>>
        THEN Failed(op, stack_name, "NotFound", probed)
        ELSE [NoCall EXCEPT !.op = op, !.name = stack_name, !.status = "ok",
                            !.touched = probed, !.compose_file = compose_file]

CreateStack(name, compose_content, env_content, overwrite) ==
    LET r == CreateStackResult(fs, stack_root, name, compose_content, env_content, overwrite)
    IN  /\ fs' = r.fs
        /\ last' = r.ret
        /\ UNCHANGED stack_root

ReadStackFiles(stack_name) ==
    /\ last' = ReadStackFilesResult(fs, stack_root, stack_name)
    /\ UNCHANGED <<fs, stack_root>>

UpdateStackFiles(stack_name, compose_content, env_content) ==
    LET r == UpdateStackFilesResult(fs, stack_root, stack_name, compose_content, env_content)
    IN  /\ fs' = r.fs
        /\ last' = r.ret
        /\ UNCHANGED stack_root

Compose(op, stack_name) ==
    /\ last' = ComposeResult(fs, stack_root, op, stack_name)
    /\ UNCHANGED <<fs, stack_root>>

\* the registry is not in use (specifications of the other components)
InitStacksIdle ==
    /\ stack_root = DefaultRoot
    /\ fs = <<>>
    /\ last = NoCall

\* ------------------------------------------- engine, disk usage and /cleanup
Categories == {"containers", "volumes", "networks", "images"}

\* JSON null / a missing dict key, and a present value
Null == [null |-> TRUE, v |-> 0]
Some(v) == [null |-> FALSE, v |-> v]

\* Python's `x or default` on a value that may be None
OrElse(opt, default) == IF opt.null THEN default ELSE opt.v

\* bytes one object of a category takes (networks take none)
ObjectSize == [c \in Categories |-> CASE c = "containers" -> 1 [] c = "volumes" -> 2
                                       [] c = "images" -> 4 [] OTHER -> 0]

Repeat(x, n) == [i \in 1..n |-> x]

\* self.low_level.df(): what the engine reports; an empty list arrives as null
SystemDf(e) ==
    [LayersSize |-> Some(e.images * ObjectSize["images"]),
     Images |-> IF e.images = 0 THEN Null
                ELSE Some(Repeat([Size |-> Some(ObjectSize["images"])], e.images)),
     Containers |-> IF e.containers = 0 THEN Null
                    ELSE Some(Repeat([SizeRootFs |-> Some(ObjectSize["containers"])],
                                     e.containers)),
     Volumes |-> IF e.volumes = 0 THEN Null
                 ELSE Some(Repeat([UsageData |-> [Size |-> Some(ObjectSize["volumes"])]],
                                  e.volumes)),
     BuildCache |-> Null]

\* _sum(items, key, nested): total += target.get(key) or 0, the target being
\* item[nested] when nested is given ("" stands for nested=None)
RECURSIVE SumOf(_, _, _)
SumOf(items, key, nested) ==
    IF items = <<>> THEN 0
    ELSE LET item == Head(items)
             target == IF nested # "" THEN item[nested] ELSE item
         IN  OrElse(target[key], 0) + SumOf(Tail(items), key, nested)

\* system_df_summary()
SystemDfSummary(e) ==
    LET data == SystemDf(e)
        images == OrElse(data.Images, <<>>)
        containers == OrElse(data.Containers, <<>>)
        volumes == OrElse(data.Volumes, <<>>)
        build_cache == OrElse(data.BuildCache, <<>>)
    IN  [total_size |-> OrElse(data.LayersSize, 0) + SumOf(containers, "SizeRootFs", "")
                        + SumOf(volumes, "Size", "UsageData")
                        + SumOf(build_cache, "Size", ""),
         images |-> [count |-> Len(images), size |-> SumOf(images, "Size", "")],
         containers |-> [count |-> Len(containers),
                         size |-> SumOf(containers, "SizeRootFs", "")],
         volumes |-> [count |-> Len(volumes), size |-> SumOf(volumes, "Size", "UsageData")],
         build_cache |-> [count |-> Len(build_cache),
                          size |-> SumOf(build_cache, "Size", "")]]

\* faulty variant of ToPrune: images=true also prunes the volumes
ToPruneImagesAndVolumes(flags) ==
    {c \in Categories : flags[c] \/ (c = "volumes" /\ flags["images"])}

\* if containers: ...; if volumes: ...; if networks: ...; if images: ...
ToPrune(flags) == {c \in Categories : flags[c]}

\* prune_resources(): the engine after the prune calls and the results dict
PruneResources(e, flags) ==
    [engine |-> [c \in Categories |-> IF c \in ToPrune(flags) THEN 0 ELSE e[c]],
     results |-> [c \in ToPrune(flags) |-> e[c]]]

Max(a, b) == IF a >= b THEN a ELSE b

\* faulty variant of ReclaimedBytes: the difference without the clamp at 0
ReclaimedBytesUnclamped(beforeTotal, afterTotal) ==
    OrElse(beforeTotal, 0) - OrElse(afterTotal, 0)

\* max((before.get("total_size") or 0) - (after.get("total_size") or 0), 0)
ReclaimedBytes(beforeTotal, afterTotal) ==
    Max(OrElse(beforeTotal, 0) - OrElse(afterTotal, 0), 0)

NoSummary == SystemDfSummary([c \in Categories |-> 0])
NoCleanup == [pc |-> "idle", status |-> 0, flags |-> [c \in Categories |-> FALSE],
              before |-> NoSummary, after |-> NoSummary, reclaimed_bytes |-> 0,
              results |-> <<>>]

InitEngineIdle ==
    /\ engine = [c \in Categories |-> 0]
    /\ cleanup = NoCleanup

\* ------------------------------------------- requests and websocket sessions
Chunks == {"a", "b"}
DeployAction == <<"compose_up">>
SessionUser == <<"u">>

\* what happened: ev names the call or event, arg its argument, res its outcome:
\* "ok", or the exception it raised ("WebSocketDisconnect", or "Error" for any
\* other Exception), or "refused" for Starlette's RuntimeError on a send or close
\* after the server's own close message
Event(ev, arg, res) == [ev |-> ev, arg |-> arg, res |-> res]

NoSession == [kind |-> "none", token_ok |-> FALSE, engine_up |-> FALSE,
              source_ok |-> FALSE, pc |-> "idle", exc |-> "none", line |-> ""]
NoConn == [application_state |-> "CONNECTING", client |-> "open"]
NoSource == [state |-> "none", all |-> <<>>, lines |-> <<>>, rc |-> 0, faulted |-> FALSE]
NoShell == [outpc |-> "idle", inpc |-> "idle", cancelled |-> FALSE, recv |-> "none",
            data |-> 0, engine |-> "open", produced |-> 0, inbox |-> 0, typed |-> 0,
            sock_closed |-> FALSE, raw |-> TRUE]

InitSessionIdle ==
    /\ sess = NoSession
    /\ conn = NoConn
    /\ hist = <<>>
    /\ src = NoSource
    /\ shell = NoShell

\* all sequences over S of length at most n
SeqsUpTo(S, n) == UNION {[1..k -> S] : k \in 0..n}

\* WebSocket.send of a data message (send_text, send_json): refused once the server
\* has sent its close message; a client that is gone makes the transport raise,
\* which Starlette turns into WebSocketDisconnect (and DISCONNECTED) or lets through
WsSendOutcomes(c) ==
    IF c.application_state # "CONNECTED"
    THEN {[conn |-> c, res |-> "refused"]}
    ELSE IF c.client = "open"
    THEN {[conn |-> c, res |-> "ok"]}
    ELSE {[conn |-> [c EXCEPT !.application_state = "DISCONNECTED"],
           res |-> "WebSocketDisconnect"],
          [conn |-> c, res |-> "Error"]}

\* WebSocket.close: refused once the server has sent its close message; otherwise
\* the state is DISCONNECTED from then on, whether or not the message gets out
WsCloseOutcomes(c) ==
    IF c.application_state = "DISCONNECTED"
    THEN {[conn |-> c, res |-> "refused"]}
    ELSE LET closed == [c EXCEPT !.application_state = "DISCONNECTED"]
         IN  IF c.client = "open"
             THEN {[conn |-> closed, res |-> "ok"]}
             ELSE {[conn |-> closed, res |-> "WebSocketDisconnect"],
                   [conn |-> closed, res |-> "Error"]}

\* what `raise` leaves for the handler: "refused" is a RuntimeError
Raised(res) == IF res = "refused" THEN "Error" ELSE res

\* ------------------------------------------------------------ configuration
\* Paths in the configuration are text: sequences of characters
RootText_r == <<"/", "r">>
RootText_s == <<"/", "s">>
Home == << <<"h">> >>

\* ConfigManager._defaults() with STACK_ROOT naming the default root
DefaultConfig == [stack_root |-> RootText_r, frontend_port |-> 18675, theme |-> "light"]

\* a field left out of the request body (None), with a filler of the field's type
Omitted(filler) == [null |-> TRUE, v |-> filler]

\* ConfigUpdateRequest: every field optional
Payloads == [stack_root : {Omitted(<<>>), Some(<<>>), Some(RootText_r), Some(RootText_s)},
             frontend_port : {Omitted(0), Some(8080)},
             theme : {Omitted(""), Some("dark"), Some("blue")}]

\* update_config: the fields that are not None; nothing to update returns the
\* configuration; a theme other than light/dark and an empty stack_root are
\* answered 400; otherwise ConfigManager.save merges the updates into _data
UpdateConfigResult(cfg, payload) ==
    LET updates == {k \in DOMAIN payload : ~payload[k].null}
    IN  IF updates = {}
        THEN [config |-> cfg, status |-> "ok"]
        ELSE IF "theme" \in updates /\ payload.theme.v \notin {"light", "dark"}
        THEN [config |-> cfg, status |-> "400"]
        ELSE IF "stack_root" \in updates /\ payload.stack_root.v = <<>>
        THEN [config |-> cfg, status |-> "400"]
        ELSE [config |-> [k \in DOMAIN cfg |-> IF k \in updates THEN payload[k].v ELSE cfg[k]],
              status |-> "ok"]

\* Path.expanduser()
ExpandUser(parts) ==
    IF parts # <<>> /\ Head(parts) = <<"~">> THEN Home \o Tail(parts) ELSE parts

\* DockerService.__init__: root = stack_root or <default>; Path(root).expanduser()
DockerServiceRoot(text) == ExpandUser(Parts(IF text = <<>> THEN RootText_r ELSE text))

\* faulty variant of GetDockerService: the DockerService of the request before is reused
GetDockerServiceCached(cfg, previous) == previous

\* get_docker_service: DockerService(stack_root=config.get_config().get("stack_root")),
\* built for the request; `previous`, the root of the DockerService built for the
\* request before, plays no part
GetDockerService(cfg, previous) == DockerServiceRoot(cfg.stack_root)

InitConfigIdle == config = DefaultConfig

\* ------------------------------------------------- initial states, limiter
NoCheck == [user |-> <<>>, action |-> <<>>, now |-> 0, status |-> 0, before |-> <<>>]

InitLimiter ==
    /\ limit \in 1..MaxLimit
    /\ window_seconds \in 0..MaxWindow
    /\ events = <<>>
    /\ clock = 0
    /\ lastCheck = NoCheck
    /\ admitted = [p \in Pairs |-> <<>>]
    /\ nChecks = 0

InitThreads ==
    /\ tpc = [t \in Threads |-> "idle"]
    /\ tnow = [t \in Threads |-> 0]
    /\ tcall = [t \in Threads |-> <<<<>>, <<>>>>]

\* time.monotonic() never goes back
Tick ==
    /\ clock < MaxTime
    /\ clock' = clock + 1
    /\ UNCHANGED <<limit, window_seconds, events, lastCheck, admitted, nChecks>>

\* One whole call limiter.check(action, user) from a single execution context
Check(user, action) ==
    /\ nChecks < MaxChecks
    /\ LET key == Key(user, action)
           out == CheckOutcome(events, limit, window_seconds, user, action, clock)
       IN  /\ events' = SetEvents(events, key, out.q)
           /\ lastCheck' = [user |-> user, action |-> action, now |-> clock,
                            status |-> out.status, before |-> EventsOf(events, key)]
           /\ admitted' = IF out.status = 200
                          THEN [admitted EXCEPT ![<<user, action>>] = Append(@, clock)]
                          ELSE admitted
    /\ nChecks' = nChecks + 1
    /\ UNCHANGED <<limit, window_seconds, clock>>


NextLimiter ==
    \/ Tick /\ UNCHANGED <<thVars, fsVars, clVars, wsVars, cfVars>>
    \/ \E u \in Users, a \in Actions : Check(u, a) /\ UNCHANGED <<thVars, fsVars, clVars, wsVars, cfVars>>

InitSeq == InitLimiter /\ InitThreads /\ InitConfigIdle /\ InitStacksIdle /\ InitEngineIdle /\ InitSessionIdle

SpecLimiter == InitSeq /\ [][NextLimiter]_vars

\* --------------------------------------- RateLimiter.check, one statement at a time
\* Route handlers declared with `def` run on threadpool workers, so several
\* checks can be inside RateLimiter.check at once; nothing in it takes a lock.

\* now = time.monotonic(); key = ...; events = self._events[key]
TEnter(t, user, action) ==
    /\ tpc[t] = "idle"
    /\ nChecks < MaxThreadCalls
    /\ nChecks' = nChecks + 1
    /\ tnow' = [tnow EXCEPT ![t] = clock]
    /\ tcall' = [tcall EXCEPT ![t] = <<user, action>>]
    /\ events' = SetEvents(events, Key(user, action), EventsOf(events, Key(user, action)))
    /\ tpc' = [tpc EXCEPT ![t] = "while"]
    /\ UNCHANGED <<limit, window_seconds, clock, lastCheck, admitted>>

TKey(t) == Key(tcall[t][1], tcall[t][2])

\* the check of thread t ends: the caller sees status (500: an uncaught IndexError)
TReturn(t, status) ==
    /\ tpc' = [tpc EXCEPT ![t] = "idle"]
    /\ lastCheck' = [user |-> tcall[t][1], action |-> tcall[t][2], now |-> tnow[t],
                     status |-> status, before |-> events[TKey(t)]]

\* while events ...            (truth value of the deque)
TWhile(t) ==
    /\ tpc[t] = "while"
    /\ tpc' = [tpc EXCEPT ![t] = IF events[TKey(t)] # <<>> THEN "head" ELSE "len"]
    /\ UNCHANGED <<limit, window_seconds, events, clock, lastCheck, admitted, nChecks,
                   tnow, tcall>>

\* ... and now - events[0] > self.window_seconds   (events[0] raises on an empty deque)
THead(t) ==
    /\ tpc[t] = "head"
    /\ IF events[TKey(t)] = <<>>
       THEN TReturn(t, 500)
       ELSE /\ tpc' = [tpc EXCEPT ![t] =
                          IF Expired(tnow[t], Head(events[TKey(t)]), window_seconds)
                          THEN "pop" ELSE "len"]
            /\ UNCHANGED lastCheck
    /\ UNCHANGED <<limit, window_seconds, events, clock, admitted, nChecks, tnow, tcall>>

\* events.popleft()            (raises on an empty deque)
TPop(t) ==
    /\ tpc[t] = "pop"
    /\ IF events[TKey(t)] = <<>>
       THEN TReturn(t, 500) /\ UNCHANGED events
       ELSE /\ events' = [events EXCEPT ![TKey(t)] = Tail(@)]
            /\ tpc' = [tpc EXCEPT ![t] = "while"]
            /\ UNCHANGED lastCheck
    /\ UNCHANGED <<limit, window_seconds, clock, admitted, nChecks, tnow, tcall>>

\* if len(events) >= self.limit: raise HTTPException(status_code=429, ...)
TLen(t) ==
    /\ tpc[t] = "len"
    /\ IF Full(events[TKey(t)], limit)
       THEN TReturn(t, 429)
       ELSE tpc' = [tpc EXCEPT ![t] = "append"] /\ UNCHANGED lastCheck
    /\ UNCHANGED <<limit, window_seconds, events, clock, admitted, nChecks, tnow, tcall>>

\* events.append(now)
TAppend(t) ==
    /\ tpc[t] = "append"
    /\ TReturn(t, 200)
    /\ events' = [events EXCEPT ![TKey(t)] = Append(@, tnow[t])]
    /\ admitted' = [admitted EXCEPT ![tcall[t]] = Append(@, tnow[t])]
    /\ UNCHANGED <<limit, window_seconds, clock, nChecks, tnow, tcall>>

NextThreads ==
    \/ Tick /\ UNCHANGED <<thVars, fsVars, clVars, wsVars, cfVars>>
    \/ (\E t \in Threads, u \in Users, a \in Actions : TEnter(t, u, a)) /\ UNCHANGED <<fsVars, clVars, wsVars, cfVars>>
    \/ (\E t \in Threads : TWhile(t)) /\ UNCHANGED <<fsVars, clVars, wsVars, cfVars>>
    \/ (\E t \in Threads : THead(t)) /\ UNCHANGED <<fsVars, clVars, wsVars, cfVars>>
    \/ (\E t \in Threads : TPop(t)) /\ UNCHANGED <<fsVars, clVars, wsVars, cfVars>>
    \/ (\E t \in Threads : TLen(t)) /\ UNCHANGED <<fsVars, clVars, wsVars, cfVars>>
    \/ (\E t \in Threads : TAppend(t)) /\ UNCHANGED <<fsVars, clVars, wsVars, cfVars>>

InitConc == InitLimiter /\ InitThreads /\ InitConfigIdle /\ InitStacksIdle /\ InitEngineIdle /\ InitSessionIdle

SpecThreads == InitConc /\ [][NextThreads]_vars

\* code points of the characters that occur in names
Ord(c) == CASE c = "." -> 46 [] c = "/" -> 47 [] c = "a" -> 97 [] c = "b" -> 98
            [] c = "r" -> 114 [] OTHER -> 0

\* Python's str <: by code point, a proper prefix first
RECURSIVE StrLess(_, _)
StrLess(s, t) ==
    IF t = <<>> THEN FALSE
    ELSE IF s = <<>> THEN TRUE
    ELSE IF Ord(Head(s)) # Ord(Head(t)) THEN Ord(Head(s)) < Ord(Head(t))
    ELSE StrLess(Tail(s), Tail(t))

\* sorted(stacks, key=lambda stack: stack["name"]) of descriptors with distinct names
RECURSIVE SortedByName(_)
SortedByName(S) ==
    IF S = {} THEN <<>>
    ELSE LET least == CHOOSE d \in S : \A e \in S \ {d} : StrLess(d.name, e.name)
         IN  <<least>> \o SortedByName(S \ {least})

\* self.stack_root.iterdir(): root / entry for every entry of the directory
IterDir(f, root) ==
    {Append(root, p[Len(p)]) : p \in {q \in DOMAIN f : q # <<>> /\ Parent(q) = Resolve(f, root).at}}

\* discover_stacks()
DiscoverStacksResult(f, root) ==
    IF ~Exists(f, root)
    THEN [NoCall EXCEPT !.op = "discover", !.status = "ok", !.touched = {root}]
    ELSE LET found == {child \in IterDir(f, root) :
                          IsDir(f, child) /\ ComposeFileForDirectory(f, child) # <<>>}
             stacks == {[name |-> child[Len(child)], path |-> child,
                         compose_file |-> ComposeFileForDirectory(f, child)] : child \in found}
         IN  [NoCall EXCEPT !.op = "discover", !.status = "ok",
                            !.touched = {root} \cup IterDir(f, root),
                            !.stacks = SortedByName(stacks)]

DiscoverStacks ==
    /\ last' = DiscoverStacksResult(fs, stack_root)
    /\ UNCHANGED <<fs, stack_root>>

\* What the stack root can hold before the first call: nothing at all (the root is
\* missing), or for each child name nothing, a plain file, or a directory with
\* any subset of the candidate files and possibly a .env
ChildConfs(candidateIndexes, envs) ==
    {[kind |-> "absent", cands |-> {}, env |-> FALSE],
     [kind |-> "file", cands |-> {}, env |-> FALSE]} \cup
    [kind : {"dir"}, cands : SUBSET candidateIndexes, env : envs]

TreeUnder(root, conf) ==
    LET children == {c \in DOMAIN conf : conf[c].kind # "absent"}
        dom == {root}
               \cup {Append(root, c) : c \in children}
               \cup {Append(Append(root, c), Seg(Candidates[i])) :
                        c \in children, i \in 1..Len(Candidates)}
               \cup {Append(Append(root, c), Seg(EnvName)) : c \in children}
        present(p) ==
            \/ Len(p) <= Len(root) + 1
            \/ /\ p[Len(p)] = Seg(EnvName)
               /\ conf[p[Len(p) - 1]].env
            \/ \E i \in conf[p[Len(p) - 1]].cands : p[Len(p)] = Seg(Candidates[i])
    IN  [p \in {q \in dom : present(q)} |->
            IF Len(p) = Len(root) THEN DirNode
            ELSE IF Len(p) = Len(root) + 1
                 THEN (IF conf[p[Len(p)]].kind = "dir" THEN DirNode ELSE FileNode("x"))
                 ELSE FileNode("x")]

InitialTrees(root, names, candidateIndexes, envs) ==
    {<<>>} \cup {TreeUnder(root, conf) : conf \in [names -> ChildConfs(candidateIndexes, envs)]}

InitLimiterIdle ==
    /\ limit = 1
    /\ window_seconds = 0
    /\ events = <<>>
    /\ clock = 0
    /\ lastCheck = NoCheck
    /\ admitted = [p \in Pairs |-> <<>>]
    /\ nChecks = 0

\* ---- the calls that write: create_stack, update_stack_files, and read_stack_files
InitStacks ==
    /\ stack_root = DefaultRoot
    /\ fs \in InitialTrees(DefaultRoot, {Name_a}, 1..3, BOOLEAN)
    /\ last = NoCall
    /\ InitLimiterIdle
    /\ InitThreads
    /\ InitConfigIdle
    /\ InitSessionIdle
    /\ InitEngineIdle

NextStacks ==
    \/ (\E name \in StackNames, c \in Texts, e \in {None, "y"}, o \in BOOLEAN :
            CreateStack(name, c, e, o)) /\ UNCHANGED <<rlVars, thVars, clVars, wsVars, cfVars>>
    \/ (\E name \in StackNames : ReadStackFiles(name)) /\ UNCHANGED <<rlVars, thVars, clVars, wsVars, cfVars>>
    \/ (\E name \in StackNames, c \in Texts, e \in {None, "y"} :
            UpdateStackFiles(name, c, e)) /\ UNCHANGED <<rlVars, thVars, clVars, wsVars, cfVars>>
    \/ DiscoverStacks /\ UNCHANGED <<rlVars, thVars, clVars, wsVars, cfVars>>

SpecStacks == InitStacks /\ [][NextStacks]_vars

\* ---- the compose calls, which resolve a stack and run a subprocess on its file
InitCompose ==
    /\ stack_root = DefaultRoot
    /\ fs \in InitialTrees(DefaultRoot, {Name_a}, 1..Len(Candidates), BOOLEAN)
    /\ last = NoCall
    /\ InitLimiterIdle
    /\ InitThreads
    /\ InitConfigIdle
    /\ InitSessionIdle
    /\ InitEngineIdle

NextCompose ==
    \/ (\E op \in ComposeOps, name \in StackNames : Compose(op, name))
            /\ UNCHANGED <<rlVars, thVars, clVars, wsVars, cfVars>>
    \/ (\E name \in StackNames : ReadStackFiles(name)) /\ UNCHANGED <<rlVars, thVars, clVars, wsVars, cfVars>>

SpecCompose == InitCompose /\ [][NextCompose]_vars

\* ---- discover_stacks on every shape of a stack root with three entries
InitDiscover ==
    /\ stack_root = DefaultRoot
    /\ fs \in InitialTrees(DefaultRoot, {Name_a, Name_ab, Name_b}, 1..Len(Candidates), {FALSE})
    /\ last = NoCall
    /\ InitLimiterIdle
    /\ InitThreads
    /\ InitConfigIdle
    /\ InitSessionIdle
    /\ InitEngineIdle

NextDiscover ==
    \/ DiscoverStacks /\ UNCHANGED <<rlVars, thVars, clVars, wsVars, cfVars>>

SpecDiscover == InitDiscover /\ [][NextDiscover]_vars

\* ------------------------------------------------------ the /cleanup handler
\* POST /cleanup up to `before = docker_service.system_df_summary()`
CleanupBegin(user, flags) ==
    /\ cleanup.pc = "idle"
    /\ LET key == Key(user, CleanupAction)
           out == CheckOutcome(events, limit, window_seconds, user, CleanupAction, clock)
       IN  /\ events' = SetEvents(events, key, out.q)
           /\ lastCheck' = [user |-> user, action |-> CleanupAction, now |-> clock,
                            status |-> out.status, before |-> EventsOf(events, key)]
           /\ cleanup' = IF out.status = 429
                         THEN [NoCleanup EXCEPT !.status = 429, !.flags = flags]
                         ELSE [NoCleanup EXCEPT !.pc = "prune", !.flags = flags,
                                                !.before = SystemDfSummary(engine)]
    /\ UNCHANGED <<limit, window_seconds, clock, admitted, nChecks, engine>>

\* results = docker_service.prune_resources(...)
CleanupPrune ==
    /\ cleanup.pc = "prune"
    /\ LET r == PruneResources(engine, cleanup.flags)
       IN  /\ engine' = r.engine
           /\ cleanup' = [cleanup EXCEPT !.pc = "after", !.results = r.results]
    /\ UNCHANGED rlVars

\* after = ...; reclaimed = ...; return {...}
CleanupFinish ==
    /\ cleanup.pc = "after"
    /\ LET after == SystemDfSummary(engine)
       IN  cleanup' = [cleanup EXCEPT !.pc = "idle", !.status = 200, !.after = after,
                          !.reclaimed_bytes =
                              ReclaimedBytes(Some(cleanup.before.total_size),
                                             Some(after.total_size))]
    /\ UNCHANGED <<rlVars, engine>>

\* another client of the engine leaves one more unused object behind
EngineActivity(c) ==
    /\ engine[c] < MaxUnused
    /\ engine' = [engine EXCEPT ![c] = @ + 1]
    /\ UNCHANGED <<rlVars, cleanup>>

InitCleanup ==
    /\ limit = 1
    /\ window_seconds = 1
    /\ events = <<>>
    /\ clock = 0
    /\ lastCheck = NoCheck
    /\ admitted = [p \in Pairs |-> <<>>]
    /\ nChecks = 0
    /\ InitThreads
    /\ InitConfigIdle
    /\ InitSessionIdle
    /\ InitStacksIdle
    /\ engine \in [Categories -> 0..MaxUnused]
    /\ cleanup = NoCleanup

NextCleanup ==
    \/ (\E flags \in [Categories -> BOOLEAN] : CleanupBegin(<<"u">>, flags))
            /\ UNCHANGED <<thVars, fsVars, wsVars, cfVars>>
    \/ CleanupPrune /\ UNCHANGED <<thVars, fsVars, wsVars, cfVars>>
    \/ CleanupFinish /\ UNCHANGED <<thVars, fsVars, wsVars, cfVars>>
    \/ EngineActivity("containers") /\ UNCHANGED <<thVars, fsVars, wsVars, cfVars>>
    \/ Tick /\ UNCHANGED <<thVars, fsVars, clVars, wsVars, cfVars>>

SpecCleanup == InitCleanup /\ [][NextCleanup]_vars

\* ------------------------------------------ sessions: the handlers step by step
\* FastAPI solves the dependencies of a route, in the order of its parameters,
\* before it calls the handler. docker_service is the first dependency of every
\* route that has one; get_docker_service constructs a DockerService, whose
\* __init__ connects to the engine and pings it and raises RuntimeError when the
\* engine is not reachable, in which case the handler is never called.
ResolveDependencies ==
    /\ sess.pc = "pending"
    /\ hist' = Append(hist, Event("construct", "", IF sess.engine_up THEN "ok" ELSE "Error"))
    /\ sess' = [sess EXCEPT !.pc = IF ~sess.engine_up THEN "failed"
                                  ELSE IF sess.kind = "http" THEN "require_user"
                                  ELSE "authorize"]
    /\ UNCHANGED <<conn, src, shell>>

\* require_user, the last dependency of the HTTP routes: 401 without a valid token
RequireUser ==
    /\ sess.pc = "require_user"
    /\ hist' = IF sess.token_ok
               THEN Append(hist, Event("verify", "", "ok"))
               ELSE hist \o <<Event("verify", "", "invalid"), Event("response", "401", "ok")>>
    /\ sess' = [sess EXCEPT !.pc = IF sess.token_ok THEN "call" ELSE "done"]
    /\ UNCHANGED <<conn, src, shell>>

\* list_containers: the handler body calls the engine
HttpCall ==
    /\ sess.pc = "call"
    /\ hist' = hist \o <<Event("engine", "list_containers", "ok"), Event("response", "200", "ok")>>
    /\ sess' = [sess EXCEPT !.pc = "done"]
    /\ UNCHANGED <<conn, src, shell>>

\* _authorize_websocket: close(code=4401) and raise WebSocketDisconnect, which no
\* handler catches at this point, or return the user name
Authorize ==
    /\ sess.pc = "authorize"
    /\ IF sess.token_ok
       THEN /\ hist' = Append(hist, Event("verify", "", "ok"))
            /\ sess' = [sess EXCEPT !.pc = IF sess.kind = "deploy" THEN "check" ELSE "accept"]
            /\ conn' = conn
       ELSE \E o \in WsCloseOutcomes(conn) :
            /\ hist' = hist \o <<Event("verify", "", "invalid"), Event("close", "4401", o.res)>>
            /\ conn' = o.conn
            /\ sess' = [sess EXCEPT !.pc = "done", !.exc = "WebSocketDisconnect"]
    /\ UNCHANGED <<src, shell>>

\* compose_deploy: limiter.check(f"compose_{action}", username) before accept();
\* its HTTPException leaves the handler
RateCheck ==
    /\ sess.pc = "check"
    /\ LET out == CheckOutcome(events, limit, window_seconds, SessionUser, DeployAction, clock)
       IN  /\ events' = SetEvents(events, Key(SessionUser, DeployAction), out.q)
           /\ hist' = Append(hist, Event("check", "", IF out.status = 200 THEN "ok" ELSE "429"))
           /\ sess' = IF out.status = 200 THEN [sess EXCEPT !.pc = "accept"]
                      ELSE [sess EXCEPT !.pc = "failed", !.exc = "Error"]
    /\ UNCHANGED <<limit, window_seconds, clock, lastCheck, admitted, nChecks>>
    /\ UNCHANGED <<conn, src, shell>>

\* await websocket.accept()
Accept ==
    /\ sess.pc = "accept"
    /\ conn' = [conn EXCEPT !.application_state = "CONNECTED"]
    /\ hist' = Append(hist, Event("accept", "", "ok"))
    /\ sess' = [sess EXCEPT !.pc = "open"]
    /\ UNCHANGED <<src, shell>>

\* stream_logs / start_shell / compose_up_stream: errors.NotFound for an unknown
\* container or stack; otherwise the log stream is open, the exec socket is
\* connected, the subprocess is running (Popen is called before the iterator is made)
OpenSource ==
    /\ sess.pc = "open"
    /\ IF sess.source_ok
       THEN /\ hist' = Append(hist, Event("open", sess.kind, "ok"))
            /\ src' = [src EXCEPT !.state = "open"]
            /\ sess' = [sess EXCEPT !.pc = "bridge"]
       ELSE /\ hist' = Append(hist, Event("open", sess.kind, "Error"))
            /\ src' = src
            /\ sess' = [sess EXCEPT !.pc = "except", !.exc = "Error"]
    /\ UNCHANGED <<conn, shell>>

\* container_logs: `await tg.start(_forward_logs, websocket, log_stream)`.
\* TaskGroup.start calls its target with the keyword argument task_status, which
\* _forward_logs(websocket, log_stream) does not take: the call raises TypeError
\* before the body of _forward_logs runs, and the handler's `except Exception` gets it.
StartForwardLogs ==
    /\ sess.pc = "bridge"
    /\ sess.kind = "logs"
    /\ hist' = Append(hist, Event("bridge", "logs", "Error"))
    /\ sess' = [sess EXCEPT !.pc = "except", !.exc = "Error"]
    /\ UNCHANGED <<conn, src, shell>>

\* compose_deploy: await _stream_command_output(websocket, stream); the worker
\* thread enters `for line in stream`
StartStreamCommandOutput ==
    /\ sess.pc = "bridge"
    /\ sess.kind = "deploy"
    /\ hist' = Append(hist, Event("bridge", "deploy", "ok"))
    /\ sess' = [sess EXCEPT !.pc = "next"]
    /\ UNCHANGED <<conn, src, shell>>

\* _stream_command._iterator: the next line of process.stdout; at its end
\* process.wait(), and RuntimeError when the return code is not 0
StreamNext ==
    /\ sess.pc = "next"
    /\ IF src.lines # <<>>
       THEN /\ sess' = [sess EXCEPT !.pc = "send", !.line = Head(src.lines)]
            /\ src' = [src EXCEPT !.lines = Tail(src.lines)]
       ELSE /\ src' = [src EXCEPT !.state = "released", !.faulted = (src.rc # 0)]
            /\ sess' = [sess EXCEPT !.pc = "finally", !.line = "",
                                    !.exc = IF src.rc # 0 THEN "Error" ELSE "none"]
    /\ UNCHANGED <<conn, hist, shell>>

\* if websocket.application_state != CONNECTED: break
\* portal.call(websocket.send_text, line)
StreamSend ==
    /\ sess.pc = "send"
    /\ IF conn.application_state # "CONNECTED"
       THEN /\ sess' = [sess EXCEPT !.pc = "finally"]
            /\ UNCHANGED <<conn, hist>>
       ELSE \E o \in WsSendOutcomes(conn) :
            /\ hist' = Append(hist, Event("send", sess.line, o.res))
            /\ conn' = o.conn
            /\ sess' = IF o.res = "ok" THEN [sess EXCEPT !.pc = "next"]
                       ELSE [sess EXCEPT !.pc = "finally", !.exc = Raised(o.res)]
    /\ UNCHANGED <<src, shell>>

\* finally: if websocket.application_state == CONNECTED: portal.call(websocket.close)
\* then the pending exception, if any, goes on to the handler
StreamFinally ==
    /\ sess.pc = "finally"
    /\ IF conn.application_state = "CONNECTED"
       THEN \E o \in WsCloseOutcomes(conn) :
            LET exc == IF o.res = "ok" THEN sess.exc ELSE Raised(o.res)
            IN  /\ hist' = Append(hist, Event("close", "1000", o.res))
                /\ conn' = o.conn
                /\ sess' = [sess EXCEPT !.exc = exc,
                                        !.pc = IF exc = "none" THEN "done" ELSE "except"]
       ELSE /\ sess' = [sess EXCEPT !.pc = IF sess.exc = "none" THEN "done" ELSE "except"]
            /\ UNCHANGED <<conn, hist>>
    /\ UNCHANGED <<src, shell>>

\* except WebSocketDisconnect: logger.info(...)
\* except Exception as exc: await _send_error(websocket, exc), whose own
\* `except Exception` swallows a failed send_json
Except ==
    /\ sess.pc = "except"
    /\ IF sess.exc = "WebSocketDisconnect"
       THEN /\ sess' = [sess EXCEPT !.pc = "done"]
            /\ UNCHANGED <<conn, hist>>
       ELSE \E o \in WsSendOutcomes(conn) :
            /\ hist' = Append(hist, Event("error", "", o.res))
            /\ conn' = o.conn
            /\ sess' = [sess EXCEPT !.pc = "close"]
    /\ UNCHANGED <<src, shell>>

\* the `await websocket.close()` that ends the `except Exception` branch; what it
\* raises leaves the handler
HandlerClose ==
    /\ sess.pc = "close"
    /\ \E o \in WsCloseOutcomes(conn) :
          /\ hist' = Append(hist, Event("close", "1000", o.res))
          /\ conn' = o.conn
          /\ sess' = [sess EXCEPT !.pc = IF o.res = "ok" THEN "done" ELSE "failed",
                                  !.exc = IF o.res = "ok" THEN sess.exc ELSE Raised(o.res)]
    /\ UNCHANGED <<src, shell>>

\* the client goes away while the session is open
ClientDisconnect ==
    /\ sess.pc \notin {"done", "failed"}
    /\ conn.application_state = "CONNECTED"
    /\ conn.client = "open"
    /\ conn' = [conn EXCEPT !.client = "gone"]
    /\ hist' = Append(hist, Event("client_gone", "", "ok"))
    /\ UNCHANGED <<sess, src, shell>>

\* ---- one request or one-way session: GET /containers, logs, deploy
InitSession ==
    /\ limit = 1
    /\ window_seconds = 1
    /\ events \in {<<>>, SetEvents(<<>>, Key(SessionUser, DeployAction), <<0>>)}
    /\ clock = 0
    /\ lastCheck = NoCheck
    /\ admitted = [p \in Pairs |-> <<>>]
    /\ nChecks = 0
    /\ InitThreads
    /\ InitConfigIdle
    /\ InitStacksIdle
    /\ InitEngineIdle
    /\ sess \in [kind : {"http", "logs", "deploy"}, token_ok : BOOLEAN, engine_up : BOOLEAN,
                 source_ok : BOOLEAN, pc : {"pending"}, exc : {"none"}, line : {""}]
    /\ conn = NoConn
    /\ hist = <<>>
    /\ src \in {[NoSource EXCEPT !.all = l, !.lines = l, !.rc = r] :
                   l \in SeqsUpTo(Chunks, MaxLines), r \in {0, 1}}
    /\ shell = NoShell

NextSession ==
    \/ ResolveDependencies /\ UNCHANGED <<rlVars, thVars, fsVars, clVars, cfVars>>
    \/ RequireUser /\ UNCHANGED <<rlVars, thVars, fsVars, clVars, cfVars>>
    \/ HttpCall /\ UNCHANGED <<rlVars, thVars, fsVars, clVars, cfVars>>
    \/ Authorize /\ UNCHANGED <<rlVars, thVars, fsVars, clVars, cfVars>>
    \/ RateCheck /\ UNCHANGED <<thVars, fsVars, clVars, cfVars>>
    \/ Accept /\ UNCHANGED <<rlVars, thVars, fsVars, clVars, cfVars>>
    \/ OpenSource /\ UNCHANGED <<rlVars, thVars, fsVars, clVars, cfVars>>
    \/ StartForwardLogs /\ UNCHANGED <<rlVars, thVars, fsVars, clVars, cfVars>>
    \/ StartStreamCommandOutput /\ UNCHANGED <<rlVars, thVars, fsVars, clVars, cfVars>>
    \/ StreamNext /\ UNCHANGED <<rlVars, thVars, fsVars, clVars, cfVars>>
    \/ StreamSend /\ UNCHANGED <<rlVars, thVars, fsVars, clVars, cfVars>>
    \/ StreamFinally /\ UNCHANGED <<rlVars, thVars, fsVars, clVars, cfVars>>
    \/ Except /\ UNCHANGED <<rlVars, thVars, fsVars, clVars, cfVars>>
    \/ HandlerClose /\ UNCHANGED <<rlVars, thVars, fsVars, clVars, cfVars>>
    \/ ClientDisconnect /\ UNCHANGED <<rlVars, thVars, fsVars, clVars, cfVars>>

SpecSession == InitSession /\ [][NextSession]_vars

\* ---------------------------------------------- the shell bridge: _bridge_shell
\* container_shell: await _bridge_shell(websocket, shell_socket); the task group
\* starts both pumps, the output pump hands shell_socket.recv to a worker thread.
\* What exec_start(socket=True) returns depends on how the engine is reached: a
\* socket with recv and send (raw), or a file-like wrapper on which the lookup
\* of recv and send raises AttributeError
StartBridgeShell ==
    /\ sess.pc = "bridge"
    /\ sess.kind = "shell"
    /\ hist' = Append(hist, Event("bridge", "shell", "ok"))
    /\ sess' = [sess EXCEPT !.pc = "pumping"]
    /\ \E raw \in BOOLEAN :
          shell' = [shell EXCEPT !.outpc = "recv", !.inpc = "receive", !.raw = raw,
                                 !.recv = IF raw THEN "blocked" ELSE "error"]
    /\ UNCHANGED <<conn, src>>

\* the shell in the container prints something
EngineOutput ==
    /\ sess.pc = "pumping"
    /\ shell.engine = "open"
    /\ shell.produced < MaxShellData
    /\ shell' = [shell EXCEPT !.data = @ + 1, !.produced = @ + 1]
    /\ UNCHANGED <<sess, conn, hist, src>>

\* the shell in the container exits: the engine ends the exec stream
EngineEof ==
    /\ sess.pc = "pumping"
    /\ shell.engine = "open"
    /\ shell' = [shell EXCEPT !.engine = "eof"]
    /\ UNCHANGED <<sess, conn, hist, src>>

\* the client sends a text message
ClientType ==
    /\ sess.pc = "pumping"
    /\ conn.client = "open"
    /\ conn.application_state = "CONNECTED"
    /\ shell.typed < MaxShellInput
    /\ shell' = [shell EXCEPT !.inbox = @ + 1, !.typed = @ + 1]
    /\ UNCHANGED <<sess, conn, hist, src>>

\* shell_socket.recv(4096) in the worker thread returns: bytes, or b"" at the end
\* of the exec stream; with neither it stays blocked
RecvReturns ==
    /\ shell.recv = "blocked"
    /\ \/ /\ shell.data > 0
          /\ shell' = [shell EXCEPT !.recv = "data", !.data = @ - 1]
       \/ /\ shell.data = 0
          /\ shell.engine = "eof"
          /\ shell' = [shell EXCEPT !.recv = "eof"]
    /\ UNCHANGED <<sess, conn, hist, src>>

\* shell_socket.close() by the input pump while recv is blocked in the worker
\* thread: the call may fail with OSError, or go on waiting for the engine
RecvInterrupted ==
    /\ shell.recv = "blocked"
    /\ shell.sock_closed
    /\ shell' = [shell EXCEPT !.recv = "error"]
    /\ UNCHANGED <<sess, conn, hist, src>>

\* _forward_shell_output: `data = await anyio.to_thread.run_sync(shell_socket.recv, 4096)`
\* returns (the wait for the thread is shielded from cancellation);
\* `if not data: break`; an exception is logged by `except Exception`
OutRecvDone ==
    /\ shell.outpc = "recv"
    /\ shell.recv \in {"data", "eof", "error"}
    /\ shell' = [shell EXCEPT !.recv = "none",
                              !.outpc = IF shell.recv = "data" THEN "send" ELSE "finally"]
    /\ UNCHANGED <<sess, conn, hist, src>>

\* await websocket.send_text(data.decode(...)), then the next recv: to_thread.run_sync
\* starts with a checkpoint, which raises the cancellation of a cancelled scope;
\* recv on a socket that is already closed raises OSError
OutSend ==
    /\ shell.outpc = "send"
    /\ \E o \in WsSendOutcomes(conn) :
          /\ hist' = Append(hist, Event("send", "d", o.res))
          /\ conn' = o.conn
          /\ shell' = IF o.res # "ok" \/ shell.cancelled
                      THEN [shell EXCEPT !.outpc = "finally"]
                      ELSE [shell EXCEPT !.outpc = "recv",
                                         !.recv = IF shell.sock_closed THEN "error"
                                                  ELSE "blocked"]
    /\ UNCHANGED <<sess, src>>

\* finally: cancel_scope.cancel()
\*          if websocket.application_state == CONNECTED: await websocket.close()
OutFinally ==
    /\ shell.outpc = "finally"
    /\ IF conn.application_state = "CONNECTED"
       THEN \E o \in WsCloseOutcomes(conn) :
               /\ hist' = Append(hist, Event("close", "1000", o.res))
               /\ conn' = o.conn
       ELSE UNCHANGED <<conn, hist>>
    /\ shell' = [shell EXCEPT !.outpc = "done", !.cancelled = TRUE]
    /\ UNCHANGED <<sess, src>>

\* _forward_shell_input: `message = await websocket.receive_text()`: a message, or
\* WebSocketDisconnect when the client is gone, or RuntimeError when the server
\* has closed, or the cancellation of the scope
InReceive ==
    /\ shell.inpc = "receive"
    /\ \/ /\ shell.cancelled
          /\ shell' = [shell EXCEPT !.inpc = "finally"]
       \/ /\ conn.application_state = "CONNECTED"
          /\ shell.inbox > 0
          /\ shell' = [shell EXCEPT !.inpc = "forward", !.inbox = @ - 1]
       \/ /\ conn.application_state = "CONNECTED"
          /\ shell.inbox = 0
          /\ conn.client = "gone"
          /\ shell' = [shell EXCEPT !.inpc = "finally"]
       \/ /\ conn.application_state # "CONNECTED"
          /\ shell' = [shell EXCEPT !.inpc = "finally"]
    /\ UNCHANGED <<sess, conn, hist, src>>

\* await anyio.to_thread.run_sync(shell_socket.send, message.encode()): the
\* checkpoint first; writing to an exec stream the engine has ended may fail
InForward ==
    /\ shell.inpc = "forward"
    /\ IF shell.cancelled
       THEN /\ shell' = [shell EXCEPT !.inpc = "finally"]
            /\ hist' = hist
       ELSE \E res \in (IF ~shell.raw THEN {"Error"}
                       ELSE IF shell.engine = "eof" THEN {"ok", "Error"} ELSE {"ok"}) :
            /\ hist' = Append(hist, Event("sock_send", "m", res))
            /\ shell' = [shell EXCEPT !.inpc = IF res = "ok" THEN "receive" ELSE "finally"]
    /\ UNCHANGED <<sess, conn, src>>

\* finally: cancel_scope.cancel(); with suppress(Exception): shell_socket.close()
InFinally ==
    /\ shell.inpc = "finally"
    /\ hist' = Append(hist, Event("sock_close", "", "ok"))
    /\ shell' = [shell EXCEPT !.inpc = "done", !.cancelled = TRUE, !.sock_closed = TRUE]
    /\ src' = [src EXCEPT !.state = "released"]
    /\ UNCHANGED <<sess, conn>>

\* both pumps have ended: the task group exits, _bridge_shell and the handler return
BridgeShellDone ==
    /\ sess.pc = "pumping"
    /\ shell.outpc = "done"
    /\ shell.inpc = "done"
    /\ sess' = [sess EXCEPT !.pc = "done"]
    /\ UNCHANGED <<conn, hist, src, shell>>

\* ---- one shell session
InitShell ==
    /\ InitLimiterIdle
    /\ InitThreads
    /\ InitConfigIdle
    /\ InitStacksIdle
    /\ InitEngineIdle
    /\ sess \in [kind : {"shell"}, token_ok : BOOLEAN, engine_up : BOOLEAN,
                 source_ok : BOOLEAN, pc : {"pending"}, exc : {"none"}, line : {""}]
    /\ conn = NoConn
    /\ hist = <<>>
    /\ src = NoSource
    /\ shell = NoShell

\* what the server does by itself: the handler, the two pumps, a recv that has
\* something to return
ShellServerStep ==
    \/ ResolveDependencies
    \/ Authorize
    \/ Accept
    \/ OpenSource
    \/ StartBridgeShell
    \/ RecvReturns
    \/ OutRecvDone
    \/ OutSend
    \/ OutFinally
    \/ InReceive
    \/ InForward
    \/ InFinally
    \/ BridgeShellDone
    \/ Except
    \/ HandlerClose

NextShell ==
    \/ ResolveDependencies /\ UNCHANGED <<rlVars, thVars, fsVars, clVars, cfVars>>
    \/ Authorize /\ UNCHANGED <<rlVars, thVars, fsVars, clVars, cfVars>>
    \/ Accept /\ UNCHANGED <<rlVars, thVars, fsVars, clVars, cfVars>>
    \/ OpenSource /\ UNCHANGED <<rlVars, thVars, fsVars, clVars, cfVars>>
    \/ StartBridgeShell /\ UNCHANGED <<rlVars, thVars, fsVars, clVars, cfVars>>
    \/ EngineOutput /\ UNCHANGED <<rlVars, thVars, fsVars, clVars, cfVars>>
    \/ EngineEof /\ UNCHANGED <<rlVars, thVars, fsVars, clVars, cfVars>>
    \/ ClientType /\ UNCHANGED <<rlVars, thVars, fsVars, clVars, cfVars>>
    \/ ClientDisconnect /\ UNCHANGED <<rlVars, thVars, fsVars, clVars, cfVars>>
    \/ RecvReturns /\ UNCHANGED <<rlVars, thVars, fsVars, clVars, cfVars>>
    \/ RecvInterrupted /\ UNCHANGED <<rlVars, thVars, fsVars, clVars, cfVars>>
    \/ OutRecvDone /\ UNCHANGED <<rlVars, thVars, fsVars, clVars, cfVars>>
    \/ OutSend /\ UNCHANGED <<rlVars, thVars, fsVars, clVars, cfVars>>
    \/ OutFinally /\ UNCHANGED <<rlVars, thVars, fsVars, clVars, cfVars>>
    \/ InReceive /\ UNCHANGED <<rlVars, thVars, fsVars, clVars, cfVars>>
    \/ InForward /\ UNCHANGED <<rlVars, thVars, fsVars, clVars, cfVars>>
    \/ InFinally /\ UNCHANGED <<rlVars, thVars, fsVars, clVars, cfVars>>
    \/ BridgeShellDone /\ UNCHANGED <<rlVars, thVars, fsVars, clVars, cfVars>>
    \/ Except /\ UNCHANGED <<rlVars, thVars, fsVars, clVars, cfVars>>
    \/ HandlerClose /\ UNCHANGED <<rlVars, thVars, fsVars, clVars, cfVars>>

\* the event loop and the worker threads keep running what is runnable; nothing
\* makes the engine or the client act
SpecShell == InitShell /\ [][NextShell]_vars /\ WF_vars(ShellServerStep /\ UNCHANGED <<rlVars, thVars, fsVars, clVars, cfVars>>)

\* ------------------------------- sessions at the grain of one websocket write
\* Every `await websocket.send_text / send_json / close` is two steps here: the
\* write starts (the activity is at its await) and the write completes with one of
\* its outcomes; whatever else is runnable may step in between. The activities of
\* a session: the handler coroutine, the worker thread of _stream_command_output
\* (its portal runs the sends it asks for, one call at a time), and the two pump
\* tasks of _bridge_shell. conn.writers holds the activities with a write in flight.
Activities == {"handler", "worker", "output", "input"}

NoWrite == [application_state |-> "CONNECTING", client |-> "open", writers |-> {}]

\* faulty variant of ThreadJoined: the handler does not wait for the worker thread
ThreadJoinedAbandoned(worker) == TRUE

\* `await anyio.to_thread.run_sync(_run_stream)` returns when _run_stream has
\* returned or raised; the wait is not given up on cancellation
ThreadJoined(worker) == worker = "done"

\* the write of activity a starts
BeginWrite(a) == conn' = [conn EXCEPT !.writers = @ \cup {a}]

\* the write of activity a completes with outcome o
EndWrite(a, what, o) ==
    /\ conn' = [o.conn EXCEPT !.writers = @ \ {a}]
    /\ hist' = Append(hist, Event(what, a, o.res))

\* _authorize_websocket: return the user name, or `await websocket.close(code=4401)`
WAuthorize ==
    /\ sess.pc = "authorize"
    /\ IF sess.token_ok
       THEN /\ sess' = [sess EXCEPT !.pc = "accept"]
            /\ conn' = conn
       ELSE /\ BeginWrite("handler")
            /\ sess' = [sess EXCEPT !.pc = "rejecting"]
    /\ UNCHANGED <<hist, src, shell>>

\* close(code=4401) completes; raise WebSocketDisconnect() leaves the handler
WRejected ==
    /\ sess.pc = "rejecting"
    /\ \E o \in WsCloseOutcomes(conn) : EndWrite("handler", "close", o)
    /\ sess' = [sess EXCEPT !.pc = "done", !.exc = "WebSocketDisconnect"]
    /\ UNCHANGED <<src, shell>>

\* await websocket.accept()
WAccept ==
    /\ sess.pc = "accept"
    /\ conn' = [conn EXCEPT !.application_state = "CONNECTED"]
    /\ sess' = [sess EXCEPT !.pc = "open"]
    /\ UNCHANGED <<hist, src, shell>>

\* the `try` body up to the bridge: stream_logs / start_shell / compose_*_stream
\* raise for an unknown container or stack. container_logs: tg.start(_forward_logs,
\* ...) raises TypeError before _forward_logs runs. compose_deploy: run_sync starts
\* the worker thread. container_shell: the task group starts both pumps.
WOpenAndBridge ==
    /\ sess.pc = "open"
    /\ IF ~sess.source_ok \/ sess.kind = "logs"
       THEN /\ sess' = [sess EXCEPT !.pc = "except", !.exc = "Error"]
            /\ UNCHANGED <<src, shell>>
       ELSE IF sess.kind = "deploy"
       THEN /\ sess' = [sess EXCEPT !.pc = "run_sync", !.worker = "next"]
            /\ src' = [src EXCEPT !.state = "open"]
            /\ shell' = shell
       ELSE /\ sess' = [sess EXCEPT !.pc = "pumping"]
            /\ src' = [src EXCEPT !.state = "open"]
            /\ \E raw \in BOOLEAN :
                  shell' = [shell EXCEPT !.outpc = "recv", !.inpc = "receive", !.raw = raw,
                                         !.recv = IF raw THEN "blocked" ELSE "error"]
    /\ UNCHANGED <<conn, hist>>

\* _run_stream, `for line in stream`: the next line, or the end of the output and
\* RuntimeError for a return code other than 0
WorkerNext ==
    /\ sess.worker = "next"
    /\ IF src.lines # <<>>
       THEN /\ sess' = [sess EXCEPT !.worker = "check", !.line = Head(src.lines)]
            /\ src' = [src EXCEPT !.lines = Tail(src.lines)]
       ELSE /\ src' = [src EXCEPT !.state = "released", !.faulted = (src.rc # 0)]
            /\ sess' = [sess EXCEPT !.worker = "finally", !.line = "",
                                    !.exc = IF src.rc # 0 THEN "Error" ELSE "none"]
    /\ UNCHANGED <<conn, hist, shell>>

\* if websocket.application_state != CONNECTED: break
\* portal.call(websocket.send_text, line) starts
WorkerSend ==
    /\ sess.worker = "check"
    /\ IF conn.application_state # "CONNECTED"
       THEN /\ sess' = [sess EXCEPT !.worker = "finally"]
            /\ conn' = conn
       ELSE /\ BeginWrite("worker")
            /\ sess' = [sess EXCEPT !.worker = "sending"]
    /\ UNCHANGED <<hist, src, shell>>

\* portal.call(websocket.send_text, line) returns or raises
WorkerSent ==
    /\ sess.worker = "sending"
    /\ \E o \in WsSendOutcomes(conn) :
          /\ EndWrite("worker", "send", o)
          /\ sess' = IF o.res = "ok" THEN [sess EXCEPT !.worker = "next"]
                     ELSE [sess EXCEPT !.worker = "finally", !.exc = Raised(o.res)]
    /\ UNCHANGED <<src, shell>>

\* finally: if websocket.application_state == CONNECTED: portal.call(websocket.close)
WorkerFinally ==
    /\ sess.worker = "finally"
    /\ IF conn.application_state = "CONNECTED"
       THEN /\ BeginWrite("worker")
            /\ sess' = [sess EXCEPT !.worker = "closing"]
       ELSE /\ sess' = [sess EXCEPT !.worker = "done"]
            /\ conn' = conn
    /\ UNCHANGED <<hist, src, shell>>

\* portal.call(websocket.close) returns or raises; the portal stops, _run_stream ends
WorkerClosed ==
    /\ sess.worker = "closing"
    /\ \E o \in WsCloseOutcomes(conn) :
          /\ EndWrite("worker", "close", o)
          /\ sess' = [sess EXCEPT !.worker = "done",
                                  !.exc = IF o.res = "ok" THEN sess.exc ELSE Raised(o.res)]
    /\ UNCHANGED <<src, shell>>

\* compose_deploy: `await _stream_command_output(websocket, stream)` returns, or
\* raises what _run_stream raised
WJoinThread ==
    /\ sess.pc = "run_sync"
    /\ ThreadJoined(sess.worker)
    /\ sess' = [sess EXCEPT !.pc = IF sess.exc = "none" THEN "done" ELSE "except"]
    /\ UNCHANGED <<conn, hist, src, shell>>

\* _forward_shell_output: `await websocket.send_text(...)` starts
WOutSend ==
    /\ shell.outpc = "send"
    /\ BeginWrite("output")
    /\ shell' = [shell EXCEPT !.outpc = "sending"]
    /\ UNCHANGED <<sess, hist, src>>

\* ... and completes, or is given up because the scope was cancelled meanwhile;
\* then the next recv, with the checkpoint of to_thread.run_sync before it
WOutSent ==
    /\ shell.outpc = "sending"
    /\ \/ \E o \in WsSendOutcomes(conn) :
             /\ EndWrite("output", "send", o)
             /\ shell' = IF o.res # "ok" \/ shell.cancelled
                         THEN [shell EXCEPT !.outpc = "finally"]
                         ELSE [shell EXCEPT !.outpc = "recv",
                                            !.recv = IF shell.sock_closed THEN "error"
                                                     ELSE "blocked"]
       \/ /\ shell.cancelled
          /\ conn' = [conn EXCEPT !.writers = @ \ {"output"}]
          /\ hist' = Append(hist, Event("send", "output", "cancelled"))
          /\ shell' = [shell EXCEPT !.outpc = "finally"]
    /\ UNCHANGED <<sess, src>>

\* finally: cancel_scope.cancel()
\*          if websocket.application_state == CONNECTED: await websocket.close()
\* the close runs inside the scope just cancelled: it starts, or the cancellation
\* is raised at its first checkpoint
WOutFinally ==
    /\ shell.outpc = "finally"
    /\ \/ /\ conn.application_state = "CONNECTED"
          /\ BeginWrite("output")
          /\ shell' = [shell EXCEPT !.outpc = "closing", !.cancelled = TRUE]
       \/ /\ conn' = conn
          /\ shell' = [shell EXCEPT !.outpc = "done", !.cancelled = TRUE]
    /\ UNCHANGED <<sess, hist, src>>

\* the close of the output pump completes (with suppress(Exception))
WOutClosed ==
    /\ shell.outpc = "closing"
    /\ \E o \in WsCloseOutcomes(conn) : EndWrite("output", "close", o)
    /\ shell' = [shell EXCEPT !.outpc = "done"]
    /\ UNCHANGED <<sess, src>>

\* except WebSocketDisconnect: logger.info(...)
\* except Exception as exc: `await _send_error(websocket, exc)` starts its send_json
WExcept ==
    /\ sess.pc = "except"
    /\ IF sess.exc = "WebSocketDisconnect"
       THEN /\ sess' = [sess EXCEPT !.pc = "done"]
            /\ conn' = conn
       ELSE /\ BeginWrite("handler")
            /\ sess' = [sess EXCEPT !.pc = "error_sending"]
    /\ UNCHANGED <<hist, src, shell>>

\* send_json completes; _send_error swallows what it raises
WErrorSent ==
    /\ sess.pc = "error_sending"
    /\ \E o \in WsSendOutcomes(conn) : EndWrite("handler", "error", o)
    /\ sess' = [sess EXCEPT !.pc = "close"]
    /\ UNCHANGED <<src, shell>>

\* the `await websocket.close()` of the `except Exception` branch starts
WHandlerClose ==
    /\ sess.pc = "close"
    /\ BeginWrite("handler")
    /\ sess' = [sess EXCEPT !.pc = "closing"]
    /\ UNCHANGED <<hist, src, shell>>

\* ... and completes; what it raises leaves the handler
WHandlerClosed ==
    /\ sess.pc = "closing"
    /\ \E o \in WsCloseOutcomes(conn) :
          /\ EndWrite("handler", "close", o)
          /\ sess' = [sess EXCEPT !.pc = IF o.res = "ok" THEN "done" ELSE "failed"]
    /\ UNCHANGED <<src, shell>>

\* ---- one websocket session of each kind, write by write
InitWrites ==
    /\ InitLimiterIdle
    /\ InitThreads
    /\ InitConfigIdle
    /\ InitStacksIdle
    /\ InitEngineIdle
    /\ sess \in [kind : {"logs", "deploy", "shell"}, token_ok : BOOLEAN,
                 source_ok : BOOLEAN, pc : {"authorize"}, worker : {"idle"},
                 exc : {"none"}, line : {""}]
    /\ conn = NoWrite
    /\ hist = <<>>
    /\ src \in {[NoSource EXCEPT !.all = l, !.lines = l, !.rc = r] :
                   l \in SeqsUpTo(Chunks, MaxLines), r \in {0, 1}}
    /\ shell = NoShell

NextWrites ==
    \/ WAuthorize /\ UNCHANGED <<rlVars, thVars, fsVars, clVars, cfVars>>
    \/ WRejected /\ UNCHANGED <<rlVars, thVars, fsVars, clVars, cfVars>>
    \/ WAccept /\ UNCHANGED <<rlVars, thVars, fsVars, clVars, cfVars>>
    \/ WOpenAndBridge /\ UNCHANGED <<rlVars, thVars, fsVars, clVars, cfVars>>
    \/ WorkerNext /\ UNCHANGED <<rlVars, thVars, fsVars, clVars, cfVars>>
    \/ WorkerSend /\ UNCHANGED <<rlVars, thVars, fsVars, clVars, cfVars>>
    \/ WorkerSent /\ UNCHANGED <<rlVars, thVars, fsVars, clVars, cfVars>>
    \/ WorkerFinally /\ UNCHANGED <<rlVars, thVars, fsVars, clVars, cfVars>>
    \/ WorkerClosed /\ UNCHANGED <<rlVars, thVars, fsVars, clVars, cfVars>>
    \/ WJoinThread /\ UNCHANGED <<rlVars, thVars, fsVars, clVars, cfVars>>
    \/ EngineOutput /\ UNCHANGED <<rlVars, thVars, fsVars, clVars, cfVars>>
    \/ EngineEof /\ UNCHANGED <<rlVars, thVars, fsVars, clVars, cfVars>>
    \/ ClientType /\ UNCHANGED <<rlVars, thVars, fsVars, clVars, cfVars>>
    \/ ClientDisconnect /\ UNCHANGED <<rlVars, thVars, fsVars, clVars, cfVars>>
    \/ RecvReturns /\ UNCHANGED <<rlVars, thVars, fsVars, clVars, cfVars>>
    \/ RecvInterrupted /\ UNCHANGED <<rlVars, thVars, fsVars, clVars, cfVars>>
    \/ OutRecvDone /\ UNCHANGED <<rlVars, thVars, fsVars, clVars, cfVars>>
    \/ WOutSend /\ UNCHANGED <<rlVars, thVars, fsVars, clVars, cfVars>>
    \/ WOutSent /\ UNCHANGED <<rlVars, thVars, fsVars, clVars, cfVars>>
    \/ WOutFinally /\ UNCHANGED <<rlVars, thVars, fsVars, clVars, cfVars>>
    \/ WOutClosed /\ UNCHANGED <<rlVars, thVars, fsVars, clVars, cfVars>>
    \/ InReceive /\ UNCHANGED <<rlVars, thVars, fsVars, clVars, cfVars>>
    \/ InForward /\ UNCHANGED <<rlVars, thVars, fsVars, clVars, cfVars>>
    \/ InFinally /\ UNCHANGED <<rlVars, thVars, fsVars, clVars, cfVars>>
    \/ BridgeShellDone /\ UNCHANGED <<rlVars, thVars, fsVars, clVars, cfVars>>
    \/ WExcept /\ UNCHANGED <<rlVars, thVars, fsVars, clVars, cfVars>>
    \/ WErrorSent /\ UNCHANGED <<rlVars, thVars, fsVars, clVars, cfVars>>
    \/ WHandlerClose /\ UNCHANGED <<rlVars, thVars, fsVars, clVars, cfVars>>
    \/ WHandlerClosed /\ UNCHANGED <<rlVars, thVars, fsVars, clVars, cfVars>>

SpecWrites == InitWrites /\ [][NextWrites]_vars

\* ------------------------------------------- rate-gated requests, one after another
\* The action names the HTTP handlers pass to limiter.check, and the route of the
\* deploy stream, which builds its action name from a query parameter
GatedRoutes == {"container_start", "container_stop", "volume_delete", "network_delete",
                "image_delete", "cleanup", "stack_create", "stack_update",
                "compose_up", "compose_down"}
DeployRoute == "deploy"
DeployParams == {"up", "down", "x"}

\* what the handler body does once the check has passed: a call to the engine, a
\* write under the stack root, or a docker compose subprocess
Effect(route) ==
    IF route \in {"stack_create", "stack_update"} THEN "file"
    ELSE IF route \in {"compose_up", "compose_down"} THEN "popen"
    ELSE "engine"

\* compose_deploy: compose_down_stream if action == "down" else compose_up_stream
DeployRuns(action) == IF action = "down" THEN "compose_down" ELSE "compose_up"

\* f"compose_{action}"
DeployActionName(action) == <<"compose_" \o action>>

\* a request still to come
NoRequest(route) ==
    [kind |-> IF route = DeployRoute THEN "deploy" ELSE "gated", route |-> route,
     n |-> 0, token_ok |-> FALSE, engine_up |-> FALSE, source_ok |-> FALSE,
     action |-> "up", status |-> 0]

\* faulty variant of GatedCall: the handler body runs before the check
GatedCallMutatesFirst(ev, lim, win, now, user, r) ==
    IF ~r.engine_up
    THEN [events |-> ev, status |-> 500, log |-> <<Event("construct", "", "Error")>>]
    ELSE IF ~r.token_ok
    THEN [events |-> ev, status |-> 401,
          log |-> <<Event("construct", "", "ok"), Event("verify", "", "invalid")>>]
    ELSE LET out == CheckOutcome(ev, lim, win, user, <<r.route>>, now)
         IN  [events |-> SetEvents(ev, Key(user, <<r.route>>), out.q),
              status |-> out.status,
              log |-> <<Event("construct", "", "ok"), Event("verify", "", "ok"),
                        Event(Effect(r.route), r.route, "ok"),
                        Event("check", r.route, IF out.status = 200 THEN "ok" ELSE "429")>>]

\* faulty variant of GatedCall: the check runs before the token is verified
GatedCallChecksFirst(ev, lim, win, now, user, r) ==
    IF ~r.engine_up
    THEN [events |-> ev, status |-> 500, log |-> <<Event("construct", "", "Error")>>]
    ELSE LET out == CheckOutcome(ev, lim, win, user, <<r.route>>, now)
             checked == <<Event("construct", "", "ok"),
                          Event("check", r.route, IF out.status = 200 THEN "ok" ELSE "429")>>
         IN  IF out.status = 429
             THEN [events |-> SetEvents(ev, Key(user, <<r.route>>), out.q),
                   status |-> 429, log |-> checked]
             ELSE IF ~r.token_ok
             THEN [events |-> SetEvents(ev, Key(user, <<r.route>>), out.q),
                   status |-> 401, log |-> Append(checked, Event("verify", "", "invalid"))]
             ELSE [events |-> SetEvents(ev, Key(user, <<r.route>>), out.q),
                   status |-> 200,
                   log |-> checked \o <<Event("verify", "", "ok"),
                                        Event(Effect(r.route), r.route, "ok")>>]

\* One request on a rate-gated HTTP route, from dependency resolution to the
\* handler body: docker_service (DockerService.__init__ connects and pings),
\* limiter (the singleton, no call), username (require_user, 401), and then
\* `limiter.check(<route>, username)` as the first statement of the body, followed
\* by the DockerService call. The result is the limiter's deques afterwards, the
\* status of the response and the calls made, in order.
GatedCall(ev, lim, win, now, user, r) ==
    IF ~r.engine_up
    THEN [events |-> ev, status |-> 500, log |-> <<Event("construct", "", "Error")>>]
    ELSE IF ~r.token_ok
    THEN [events |-> ev, status |-> 401,
          log |-> <<Event("construct", "", "ok"), Event("verify", "", "invalid")>>]
    ELSE LET out == CheckOutcome(ev, lim, win, user, <<r.route>>, now)
             checked == <<Event("construct", "", "ok"), Event("verify", "", "ok"),
                          Event("check", r.route, IF out.status = 200 THEN "ok" ELSE "429")>>
         IN  [events |-> SetEvents(ev, Key(user, <<r.route>>), out.q),
              status |-> out.status,
              log |-> IF out.status = 429 THEN checked
                      ELSE Append(checked, Event(Effect(r.route), r.route, "ok"))]

\* The start of one deploy session: dependencies, _authorize_websocket (close 4401),
\* limiter.check(f"compose_{action}", username), accept, and compose_up_stream or
\* compose_down_stream, which resolves the compose file (NotFound) and starts the
\* subprocess at once (Popen in _stream_command)
DeployCall(ev, lim, win, now, user, r) ==
    IF ~r.engine_up
    THEN [events |-> ev, status |-> 500, log |-> <<Event("construct", "", "Error")>>]
    ELSE IF ~r.token_ok
    THEN [events |-> ev, status |-> 4401,
          log |-> <<Event("construct", "", "ok"), Event("verify", "", "invalid"),
                    Event("close", "4401", "ok")>>]
    ELSE LET name == DeployActionName(r.action)
             out == CheckOutcome(ev, lim, win, user, name, now)
             checked == <<Event("construct", "", "ok"), Event("verify", "", "ok"),
                          Event("check", name[1], IF out.status = 200 THEN "ok" ELSE "429")>>
         IN  [events |-> SetEvents(ev, Key(user, name), out.q),
              status |-> out.status,
              log |-> IF out.status = 429 THEN checked
                      ELSE checked \o <<Event("accept", "", "ok"),
                                        IF r.source_ok
                                        THEN Event("popen", DeployRuns(r.action), "ok")
                                        ELSE Event("open", DeployRuns(r.action), "Error")>>]

\* a request on the route of this run, by SessionUser when its token is valid;
\* hist is the calls of the last request, src the subprocesses the deploy
\* sessions have started so far: what ran and when
GatedRequest ==
    /\ sess.kind = "gated"
    /\ sess.n < MaxRequests
    /\ \E token_ok \in BOOLEAN, engine_up \in BOOLEAN :
          LET r == [sess EXCEPT !.n = @ + 1, !.token_ok = token_ok, !.engine_up = engine_up]
              out == GatedCall(events, limit, window_seconds, clock, SessionUser, r)
          IN  /\ events' = out.events
              /\ hist' = out.log
              /\ sess' = [r EXCEPT !.status = out.status]
    /\ UNCHANGED <<limit, window_seconds, clock, lastCheck, admitted, nChecks>>
    /\ UNCHANGED <<conn, src, shell>>

DeployRequest ==
    /\ sess.kind = "deploy"
    /\ sess.n < MaxRequests
    /\ \E token_ok \in BOOLEAN, engine_up \in BOOLEAN, source_ok \in BOOLEAN,
          action \in DeployParams :
          LET r == [sess EXCEPT !.n = @ + 1, !.token_ok = token_ok, !.engine_up = engine_up,
                                !.source_ok = source_ok, !.action = action]
              out == DeployCall(events, limit, window_seconds, clock, SessionUser, r)
              started == SelectSeq(out.log, LAMBDA e : e.ev = "popen")
          IN  /\ events' = out.events
              /\ hist' = out.log
              /\ sess' = [r EXCEPT !.status = out.status]
              /\ src' = src \o [i \in 1..Len(started) |->
                                  [ran |-> started[i].arg, user |-> SessionUser, at |-> clock]]
    /\ UNCHANGED <<limit, window_seconds, clock, lastCheck, admitted, nChecks>>
    /\ UNCHANGED <<conn, shell>>

InitGate ==
    /\ limit = 1
    /\ window_seconds = 1
    /\ events = <<>>
    /\ clock = 0
    /\ lastCheck = NoCheck
    /\ admitted = [p \in Pairs |-> <<>>]
    /\ nChecks = 0
    /\ InitThreads
    /\ InitConfigIdle
    /\ InitStacksIdle
    /\ InitEngineIdle
    /\ sess \in {NoRequest(route) : route \in GatedRoutes \cup {DeployRoute}}
    /\ conn = NoConn
    /\ hist = <<>>
    /\ src = <<>>
    /\ shell = NoShell

NextGate ==
    \/ GatedRequest /\ UNCHANGED <<thVars, fsVars, clVars, cfVars>>
    \/ DeployRequest /\ UNCHANGED <<thVars, fsVars, clVars, cfVars>>
    \/ Tick /\ UNCHANGED <<thVars, fsVars, clVars, wsVars, cfVars>>

SpecGate == InitGate /\ [][NextGate]_vars

\* ------------------------------------- requests that read or set the stack root
\* PUT /config
UpdateConfig(payload) ==
    LET r == UpdateConfigResult(config, payload)
    IN  /\ config' = r.config
        /\ last' = [NoCall EXCEPT !.op = "update_config", !.status = r.status,
                                  !.name = OrElse(payload.stack_root, <<>>)]
        /\ UNCHANGED <<fs, stack_root>>

\* a stack request: its DockerService is built from the configuration, then the
\* handler calls the operation on it (deploy: compose_up_stream)
StackOps == {"create", "read", "update", "discover"} \cup ComposeOps
StackRequest(op, name, compose_content, overwrite) ==
    LET root == GetDockerService(config, stack_root)
        r == CASE op = "create" ->
                    CreateStackResult(fs, root, name, compose_content, None, overwrite)
               [] op = "update" ->
                    UpdateStackFilesResult(fs, root, name, compose_content, None)
               [] op = "read" -> [fs |-> fs, ret |-> ReadStackFilesResult(fs, root, name)]
               [] op = "discover" -> [fs |-> fs, ret |-> DiscoverStacksResult(fs, root)]
               [] OTHER -> [fs |-> fs, ret |-> ComposeResult(fs, root, op, name)]
    IN  /\ stack_root' = root
        /\ fs' = r.fs
        /\ last' = r.ret
        /\ UNCHANGED config

InitConfig ==
    /\ config = DefaultConfig
    /\ stack_root = DefaultRoot
    /\ fs \in InitialTrees(DefaultRoot, {Name_a}, {1}, {FALSE})
    /\ last = NoCall
    /\ InitLimiterIdle
    /\ InitThreads
    /\ InitSessionIdle
    /\ InitEngineIdle

NextConfig ==
    \/ (\E payload \in Payloads : UpdateConfig(payload)) /\ UNCHANGED <<rlVars, thVars, clVars, wsVars>>
    \/ (\E op \in StackOps, c \in Texts, o \in BOOLEAN : StackRequest(op, Name_a, c, o))
          /\ UNCHANGED <<rlVars, thVars, clVars, wsVars>>

SpecConfig == InitConfig /\ [][NextConfig]_vars

\* ------------------------------------------------------- claims: rate limiter
\* number of admitted checks of pair p with a timestamp in the span [t, t + w]
AdmittedInSpan(p, t, w) ==
    Cardinality({i \in 1..Len(admitted[p]) : admitted[p][i] >= t /\ admitted[p][i] <= t + w})

\* C1: for every (user, action), at most `limit` checks succeed within any span of
\* window_seconds seconds, and a check that finds `limit` admitted checks in the
\* span ending now is answered 429.
C1_AtMostLimitPerWindow ==
    /\ \A p \in Pairs : \A i \in 1..Len(admitted[p]) :
          AdmittedInSpan(p, admitted[p][i], window_seconds) <= limit
    /\ \A p \in Pairs :
          LET inSpan == AdmittedInSpan(p, lastCheck.now - window_seconds, window_seconds)
              earlier == inSpan - (IF lastCheck.status = 200 THEN 1 ELSE 0)
          IN  (<<lastCheck.user, lastCheck.action>> = p /\ earlier >= limit)
              => lastCheck.status = 429

\* C1 witness: a check was rejected with `limit` admitted checks inside the span
C1_Witness ==
    /\ lastCheck.status = 429
    /\ AdmittedInSpan(<<lastCheck.user, lastCheck.action>>,
                      lastCheck.now - window_seconds, window_seconds) = limit

\* C2: a check on a full window whose oldest event is more than window_seconds old
\* succeeds, drops every expired event (the oldest one included) and records now.
C2_Recovery ==
    [][\A p \in Pairs :
         LET q == EventsOf(events, Key(p[1], p[2]))
         IN  (/\ nChecks' = nChecks + 1
              /\ lastCheck'.user = p[1] /\ lastCheck'.action = p[2]
              /\ Len(q) >= limit
              /\ clock - Head(q) > window_seconds)
             => /\ lastCheck'.status = 200
                /\ events'[Key(p[1], p[2])] =
                     SelectSeq(q, LAMBDA t : clock - t <= window_seconds) \o <<clock>>
                /\ Len(events'[Key(p[1], p[2])]) <= Len(q)]_vars

\* C2 witness: a full window has recovered
C2_Witness ==
    /\ lastCheck.status = 200
    /\ Len(lastCheck.before) = limit
    /\ lastCheck.now - Head(lastCheck.before) > window_seconds

\* C3: with checks interleaving statement by statement, no key ever retains more
\* than `limit` timestamps and no pair has more than `limit` admissions in a window.
C3_AtomicPerKey ==
    /\ \A k \in DOMAIN events : Len(events[k]) <= limit
    /\ \A p \in Pairs : \A i \in 1..Len(admitted[p]) :
          AdmittedInSpan(p, admitted[p][i], window_seconds) <= limit

\* ------------------------------------------------------ claims: stack registry
\* a single non-empty path segment: no separator, not "..", not "."
SingleSegment(name) ==
    /\ name # <<>>
    /\ \A i \in 1..Len(name) : name[i] # "/"
    /\ name # DotDot
    /\ name # <<".">>

\* the stack root, the immediate children of the root and the entries inside them
UnderRoot(p) ==
    /\ Len(p) >= Len(stack_root)
    /\ Len(p) <= Len(stack_root) + 2
    /\ SubSeq(p, 1, Len(stack_root)) = stack_root

\* C4: create_stack goes past validation only with a single-segment name, answers
\* every other name with Validation before any filesystem access, and creates or
\* writes only inside immediate children of the stack root.
C4_CreateValidatesName ==
    last.op = "create" =>
        /\ ~SingleSegment(last.name) => (last.status = "Validation" /\ last.touched = {})
        /\ \A p \in last.written : UnderRoot(p)

\* C5: read_stack_files, update_stack_files and the compose calls answer a name
\* that is not a single segment with Validation before any filesystem access, and
\* write nothing outside an immediate child of the stack root.
C5_ResolveValidatesName ==
    last.op \in {"read", "update"} \cup ComposeOps =>
        /\ ~SingleSegment(last.name) => (last.status = "Validation" /\ last.touched = {})
        /\ \A p \in last.written : UnderRoot(p)

\* C6: create_stack with overwrite=false on a name whose directory exists answers
\* Conflict and changes no file; on a fresh name it succeeds and the compose file of
\* the descriptor holds exactly the given content.
C6_CreateConflict ==
    [][\A name \in StackNames :
         (last'.op = "create" /\ last'.name = name /\ SingleSegment(name)) =>
            LET dir == Append(stack_root, name)
                file == Append(dir, Seg("docker-compose.yaml"))
            IN  /\ (dir \in DOMAIN fs /\ fs[dir].kind = "dir" /\ ~last'.overwrite)
                      => (last'.status = "Conflict" /\ fs' = fs)
                /\ (dir \notin DOMAIN fs)
                      => /\ last'.status = "ok"
                         /\ last'.compose_file = file
                         /\ file \in DOMAIN fs'
                         /\ fs'[file] = FileNode(last'.compose_content)]_vars

\* C6 witness: a second create with other content was refused and the file kept its text
C6_Witness ==
    /\ last.op = "create" /\ last.status = "Conflict" /\ last.name = Name_a
    /\ <<<<"r">>, Name_a, Seg("docker-compose.yaml")>> \in DOMAIN fs
    /\ fs[<<<<"r">>, Name_a, Seg("docker-compose.yaml")>>].text # last.compose_content

\* C7: after a successful update_stack_files, read_stack_files returns the compose
\* content just written and the env content just written, or "" when none was given
\* (the .env is gone); with no resolvable compose file the update answers NotFound
\* and changes no file.
C7_UpdateThenRead ==
    [][last'.op = "update" =>
         /\ last'.status = "ok" =>
              LET r == ReadStackFilesResult(fs', stack_root', last'.name)
              IN  /\ r.status = "ok"
                  /\ r.compose_content = last'.compose_content
                  /\ r.env_content = IF last'.env_content = None THEN ""
                                     ELSE last'.env_content
         /\ (\A i \in 1..4 : ~Exists(fs, Append(Join(stack_root, last'.name),
                                                Seg(Candidates[i]))))
              => (last'.status = "NotFound" /\ fs' = fs)
         /\ last'.status \in {"ok", "NotFound"}]_vars

\* C7 witness: an update without env content removed an existing .env
C7_Witness ==
    /\ last.op = "update" /\ last.status = "ok" /\ last.env_content = None
    /\ \E p \in last.written : p[Len(p)] = Seg(EnvName) /\ p \notin DOMAIN fs

\* C8: discover_stacks returns one descriptor per immediate subdirectory of the root
\* that holds a candidate file, none for anything else, each with the first existing
\* candidate of docker-compose.yml, docker-compose.yaml, compose.yml, compose.yaml,
\* in ascending order of name; a missing root gives the empty list.
C8_Order == <<"docker-compose.yml", "docker-compose.yaml", "compose.yml", "compose.yaml">>
C8_Rank(name) == CASE name = Name_a -> 1 [] name = Name_ab -> 2 [] name = Name_b -> 3
                   [] OTHER -> 0
C8_Discover ==
    last.op = "discover" =>
        LET holds(c, i) == <<stack_root[1], c, Seg(C8_Order[i])>> \in DOMAIN fs
            stacksOnDisk == {c \in {Name_a, Name_ab, Name_b} :
                               /\ <<stack_root[1], c>> \in DOMAIN fs
                               /\ fs[<<stack_root[1], c>>].kind = "dir"
                               /\ \E i \in 1..4 : holds(c, i)}
            n == Len(last.stacks)
        IN  /\ last.status = "ok"
            /\ n = Cardinality(stacksOnDisk)
            /\ {last.stacks[k].name : k \in 1..n} = stacksOnDisk
            /\ \A k \in 1..n :
                  LET d == last.stacks[k]
                      first == CHOOSE i \in 1..4 :
                                  holds(d.name, i) /\ \A j \in 1..(i - 1) : ~holds(d.name, j)
                  IN  /\ d.path = <<stack_root[1], d.name>>
                      /\ d.compose_file = <<stack_root[1], d.name, Seg(C8_Order[first])>>
            /\ \A k \in 1..n, m \in 1..n :
                  k < m => C8_Rank(last.stacks[k].name) < C8_Rank(last.stacks[m].name)
            /\ (stack_root \notin DOMAIN fs) => last.stacks = <<>>

\* C8 witness: three stacks found, one through a later candidate although it also
\* holds an earlier-listed one
C8_Witness ==
    /\ last.op = "discover" /\ Len(last.stacks) = 3
    /\ last.stacks[2].compose_file = <<stack_root[1], Name_ab, Seg("docker-compose.yml")>>
    /\ <<stack_root[1], Name_ab, Seg("docker-compose.yaml")>> \in DOMAIN fs
    /\ last.stacks[3].compose_file = <<stack_root[1], Name_b, Seg("compose.yaml")>>

\* ------------------------------------------------------------ claims: cleanup
\* C9: prune_resources prunes exactly the categories whose flag is true: the keys
\* of the results are the true flags and the engine keeps every other category.
C9_PruneOnlyFlagged ==
    [][(cleanup.pc = "prune" /\ cleanup'.pc = "after") =>
         /\ DOMAIN cleanup'.results = {c \in Categories : cleanup.flags[c]}
         /\ \A c \in Categories :
               /\ ~cleanup.flags[c] => engine'[c] = engine[c]
               /\ cleanup.flags[c] => (engine'[c] = 0 /\ cleanup'.results[c] = engine[c])]_vars

\* C9 witness: a cleanup with only images=true pruned images and left the containers
C9_Witness ==
    /\ cleanup.status = 200
    /\ {c \in Categories : cleanup.flags[c]} = {"images"}
    /\ DOMAIN cleanup.results = {"images"}
    /\ cleanup.results["images"] > 0
    /\ cleanup.before.containers.count > 0
    /\ cleanup.after.containers = cleanup.before.containers
    /\ cleanup.after.volumes = cleanup.before.volumes
    /\ cleanup.before.volumes.count > 0

\* C10: reclaimed_bytes is max(before.total_size - after.total_size, 0), never
\* negative, also when the total grew and when a total is null (read as 0).
C10_Expected(b, a) ==
    LET bv == IF b.null THEN 0 ELSE b.v
        av == IF a.null THEN 0 ELSE a.v
    IN  IF bv > av THEN bv - av ELSE 0
C10_Totals == {Null} \cup {Some(n) : n \in 0..(7 * MaxUnused)}
C10_ReclaimedNeverNegative ==
    /\ cleanup.status = 200 =>
          /\ cleanup.reclaimed_bytes >= 0
          /\ cleanup.reclaimed_bytes =
                C10_Expected(Some(cleanup.before.total_size), Some(cleanup.after.total_size))
    /\ \A b \in C10_Totals, a \in C10_Totals :
          ReclaimedBytes(b, a) >= 0 /\ ReclaimedBytes(b, a) = C10_Expected(b, a)

\* C10 witness: the total grew while the cleanup ran and 0 bytes are reported
C10_Witness ==
    /\ cleanup.status = 200
    /\ cleanup.after.total_size > cleanup.before.total_size
    /\ cleanup.reclaimed_bytes = 0

\* ----------------------------------------------------------- claims: sessions
\* the handler of the session has ended
Ended == sess.pc \in {"done", "failed"}

\* positions in the history of the calls or events named ev
Happened(ev) == {i \in 1..Len(hist) : hist[i].ev = ev}

\* what reached the client, in order
Delivered == SelectSeq(hist, LAMBDA e : e.ev \in {"send", "error", "close"} /\ e.res = "ok")

\* the source of the session was opened
Opened == \E i \in Happened("open") : hist[i].res = "ok"

\* the chunks of l as successful sends
ChunksOf(l) == [i \in 1..Len(l) |-> Event("send", l[i], "ok")]

WsKinds == {"logs", "shell", "deploy"}

\* C11: in a logs or deploy session whose source yields its chunks and is then
\* exhausted while the client stays connected, the client receives exactly the
\* chunks, in order, then the close, and no error notification is ever sent.
C11_CleanEnd ==
    (sess.kind \in {"logs", "deploy"} /\ Ended /\ Opened /\ src.rc = 0 /\ conn.client = "open")
        => /\ Delivered = ChunksOf(src.all) \o <<Event("close", "1000", "ok")>>
           /\ Happened("error") = {}

\* C12: in a logs or deploy session whose source yields chunks and then faults
\* while the client stays connected, the client receives the chunks, then exactly
\* one error notification, then the close; no error notification is attempted
\* after a close.
C12_FaultedEnd ==
    (sess.kind \in {"logs", "deploy"} /\ Ended /\ Opened /\ src.rc # 0 /\ conn.client = "open")
        => /\ Delivered = ChunksOf(src.all)
                             \o <<Event("error", "", "ok"), Event("close", "1000", "ok")>>
           /\ Cardinality(Happened("error")) = 1
           /\ \A i \in Happened("close"), j \in Happened("error") : j < i

\* C13: the subprocess source yields the output lines in order and faults only
\* after the last line and only on a non-zero exit status; with the client
\* connected, a non-zero exit always gives the client an error notification.
C13_NonZeroExitReported ==
    /\ \E k \in 0..Len(src.all) : src.lines = SubSeq(src.all, k + 1, Len(src.all))
    /\ src.faulted => (src.lines = <<>> /\ src.rc # 0)
    /\ (src.state = "released" /\ src.rc = 0) => ~src.faulted
    /\ (sess.kind = "deploy" /\ Ended /\ src.faulted /\ conn.client = "open")
          => \E i \in Happened("error") : hist[i].res = "ok"

\* C14: on every exit path of a websocket session that was refused for its token
\* or accepted, the server calls close on the connection exactly once.
C14_ClosedExactlyOnce ==
    (sess.kind \in WsKinds /\ Ended
        /\ (Happened("accept") # {} \/ \E i \in Happened("verify") : hist[i].res = "invalid"))
        => Cardinality(Happened("close")) = 1

\* C15: when a logs or deploy session whose source was opened has ended after the
\* client disconnected, the log stream or the subprocess handle has been released.
C15_SourceReleased ==
    (sess.kind \in {"logs", "deploy"} /\ Ended /\ Opened /\ conn.client = "gone")
        => src.state = "released"

\* C16: in the shell bridge, once one pump has ended, eventually both pumps have
\* ended, the engine socket has been closed exactly once and the client
\* connection is closed, with close called on it at most once (not at all only
\* when a send to a client that had gone already marked it disconnected).
C16_BothPumpsStop ==
    (sess.kind = "shell" /\ (shell.outpc = "done" \/ shell.inpc = "done"))
        ~> (/\ shell.outpc = "done"
            /\ shell.inpc = "done"
            /\ Cardinality(Happened("sock_close")) = 1
            /\ conn.application_state = "DISCONNECTED"
            /\ Cardinality(Happened("close")) <= 1)

\* C17: no data chunk and no error notification is written to the client
\* connection after the server has closed it or the client has disconnected.
C17_NoWriteAfterClose ==
    \A i \in 1..Len(hist), j \in 1..Len(hist) :
        (/\ i < j
         /\ \/ hist[i].ev = "client_gone"
            \/ (hist[i].ev = "close" /\ hist[i].res # "refused"))
            => hist[j].ev \notin {"send", "error"}

\* C18: a websocket session with a missing or invalid token ends closed with code
\* 4401, never accepted, with nothing sent to the client and with no rate-limit
\* check, source or bridge started.
C18_UnauthorizedClosed ==
    (sess.kind \in WsKinds /\ ~sess.token_ok /\ Ended)
        => /\ \E i \in Happened("close") : hist[i].arg = "4401"
           /\ Happened("accept") = {}
           /\ Happened("send") \cup Happened("error") = {}
           /\ Happened("check") \cup Happened("open") \cup Happened("bridge") = {}

\* C19: the engine is not contacted (gateway construction, source opening, engine
\* call) before the token of the request or session has been verified as valid.
C19_NoEngineBeforeAuth ==
    \A j \in Happened("construct") \cup Happened("open") \cup Happened("engine") :
        \E i \in Happened("verify") : i < j /\ hist[i].res = "ok"

\* the state of a websocket session
SessionState ==
    IF Ended \/ conn.application_state = "DISCONNECTED" THEN "Closed"
    ELSE IF \E i \in Happened("bridge") : hist[i].res = "ok" THEN "Streaming"
    ELSE IF \E i \in Happened("verify") : hist[i].res = "ok" THEN "Authorized"
    ELSE "Pending"

\* C20: a websocket session only moves Pending -> Authorized -> Streaming ->
\* Closed, Pending -> Closed or Streaming -> Closed; Closed is terminal and
\* Authorized is left only into Streaming.
C20_SessionTransitions ==
    [][sess.kind \in WsKinds =>
          \/ SessionState' = SessionState
          \/ <<SessionState, SessionState'>> \in
                {<<"Pending", "Authorized">>, <<"Authorized", "Streaming">>,
                 <<"Streaming", "Closed">>, <<"Pending", "Closed">>}]_vars

\* ------------------------------------------- claims: rate limiter, frame and keys
\* q with its expired head timestamps removed, stated without the eviction loop:
\* the suffix of q that starts at its first timestamp not older than win
HeadPruned(q, now, win) ==
    LET keep == {i \in 1..Len(q) : now - q[i] <= win}
        first == IF keep = {} THEN Len(q) + 1
                 ELSE CHOOSE i \in keep : \A j \in keep : i <= j
    IN  SubSeq(q, first, Len(q))

\* C21: a check answered 429 leaves the key's window equal to its previous window
\* without the expired head timestamps, nothing appended; every check, accepted
\* or rejected, leaves the windows of all other keys as they were.
C21_RejectedRecordsNothing ==
    [][nChecks' = nChecks + 1 =>
         LET key == Key(lastCheck'.user, lastCheck'.action)
         IN  /\ lastCheck'.status = 429
                  => events'[key] = HeadPruned(EventsOf(events, key), clock, window_seconds)
             /\ \A k \in (DOMAIN events \cup DOMAIN events') \ {key} :
                  /\ k \in DOMAIN events
                  /\ k \in DOMAIN events'
                  /\ events'[k] = events[k]]_vars

\* C21 witness: a check was rejected while another key holds a window
C21_Witness ==
    /\ lastCheck.status = 429
    /\ events[Key(lastCheck.user, lastCheck.action)] = lastCheck.before
    /\ \E k \in DOMAIN events : k # Key(lastCheck.user, lastCheck.action) /\ events[k] # <<>>

\* C22: every key's retained timestamps are in non-decreasing order and at most
\* `limit` many, and the retained timestamps of the key checked last are all
\* within window_seconds of the time of that check.
C22_RateWindow ==
    /\ \A k \in DOMAIN events :
          /\ Len(events[k]) <= limit
          /\ \A i \in 1..Len(events[k]), j \in 1..Len(events[k]) :
                i < j => events[k][i] <= events[k][j]
    /\ nChecks > 0 =>
          LET q == events[Key(lastCheck.user, lastCheck.action)]
          IN  \A i \in 1..Len(q) : lastCheck.now - q[i] <= window_seconds

\* C22 witness: a check has pruned an expired timestamp from the front of a
\* window and the window holds two timestamps taken at different times
C22_Witness ==
    /\ nChecks > 0
    /\ lastCheck.before # <<>>
    /\ lastCheck.now - Head(lastCheck.before) > window_seconds
    /\ \E k \in DOMAIN events : Len(events[k]) = 2 /\ events[k][1] < events[k][2]

\* C23: a check on one (user, action) pair leaves the window of every other pair
\* as it was, and a pair is only rejected when `limit` of its own checks were
\* admitted within the last window_seconds.
C23_IndependentPairs ==
    [][nChecks' = nChecks + 1 =>
         LET p == <<lastCheck'.user, lastCheck'.action>>
         IN  /\ \A o \in Pairs \ {p} :
                  EventsOf(events', Key(o[1], o[2])) = EventsOf(events, Key(o[1], o[2]))
             /\ lastCheck'.status = 429
                  => AdmittedInSpan(p, clock - window_seconds, window_seconds) >= limit]_vars

\* ------------------------------------------------ claims: rate-gated requests
\* the calls of a handler body that act on the engine, start a subprocess or
\* write under the stack root
Effects == {"engine", "popen", "file"}

\* C24: within any span of window_seconds, the deploy sessions of one user start
\* at most `limit` compose-up subprocesses, whatever their action parameters.
C24_DeployThrottledPerOperation ==
    \A i \in 1..Len(src) :
        src[i].ran = "compose_up" =>
            Cardinality({j \in 1..Len(src) :
                            /\ src[j].ran = "compose_up"
                            /\ src[j].user = src[i].user
                            /\ src[j].at >= src[i].at
                            /\ src[j].at <= src[i].at + window_seconds}) <= limit

\* C25 as stated: a request answered 429 has made no call to the engine at all,
\* started no subprocess and changed no stack file.
C25_RejectedTouchesNothing ==
    sess.status = 429 =>
        \A i \in 1..Len(hist) : hist[i].ev \notin Effects \cup {"construct", "open"}

\* C25 amended: in every request the handler body's engine call, subprocess or
\* file write comes after a successful rate check, and a request answered 429 has
\* made no such call and started no subprocess; the only engine contact of a
\* rejected request is the connection check made when its DockerService was built.
C25_CheckBeforeMutation ==
    [][sess'.n = sess.n + 1 =>
         /\ \A i \in 1..Len(hist') :
               hist'[i].ev \in Effects =>
                   \E j \in 1..(i - 1) : hist'[j].ev = "check" /\ hist'[j].res = "ok"
         /\ sess'.status = 429 =>
               /\ \A i \in 1..Len(hist') : hist'[i].ev \notin Effects \cup {"open", "accept"}
               /\ src' = src]_vars

\* C25 witness: a request on a gated HTTP route was answered 429
C25_Witness ==
    /\ sess.status = 429
    /\ sess.kind = "gated"
    /\ \E i \in 1..Len(hist) : hist[i].ev = "check" /\ hist[i].res = "429"

\* C26: a request or deploy session whose token is not valid leaves every window
\* as it was, and every rate check is preceded by a successful token verification.
C26_UnauthenticatedConsumesNothing ==
    [][sess'.n = sess.n + 1 =>
         /\ ~sess'.token_ok => events' = events
         /\ \A i \in 1..Len(hist') :
               hist'[i].ev = "check" =>
                   \E j \in 1..(i - 1) : hist'[j].ev = "verify" /\ hist'[j].res = "ok"]_vars

\* C26 witness: a request with an invalid token was turned away while the user's
\* window holds a timestamp
C26_Witness ==
    /\ sess.n > 0
    /\ sess.engine_up
    /\ ~sess.token_ok
    /\ sess.status \in {401, 4401}
    /\ \E k \in DOMAIN events : events[k] # <<>>

\* ------------------------------------------------- claims: create/read round trip
\* C28: after a successful create_stack on a single-segment name, read_stack_files
\* of that name returns the compose content just written, and the compose file of
\* the returned descriptor is the file the name resolves to.
C28_CreateThenRead ==
    [][(last'.op = "create" /\ last'.status = "ok" /\ SingleSegment(last'.name)) =>
         LET r == ReadStackFilesResult(fs', stack_root', last'.name)
         IN  /\ r.status = "ok"
             /\ r.compose_content = last'.compose_content
             /\ r.compose_file = last'.compose_file]_vars

\* ----------------------------------------------------- claims: configuration
\* the directory a stack root text names
C29_PathOf(text) == IF text = <<"/", "s">> THEN << <<"s">> >> ELSE << <<"r">> >>

\* p is root or lies under it
C29_Under(p, root) == Len(p) >= Len(root) /\ SubSeq(p, 1, Len(root)) = root

\* C29: a successful config update with a non-empty stack_root R leaves R in the
\* configuration, the configured root changes in no other way, and every stack
\* operation (discover, create, read, update, compose, deploy stream) runs on the
\* root configured at that moment: each path it looks at or writes lies under it.
C29_RootFromConfig ==
    [][/\ (last'.op = "update_config" /\ last'.status = "ok" /\ last'.name # <<>>)
            => config'.stack_root = last'.name
       /\ config'.stack_root # config.stack_root
            => (last'.op = "update_config" /\ last'.status = "ok")
       /\ last'.op \in StackOps
            => /\ stack_root' = C29_PathOf(config.stack_root)
               /\ \A p \in last'.touched \cup last'.written :
                     C29_Under(p, C29_PathOf(config.stack_root))
               /\ last'.compose_file # <<>>
                     => C29_Under(last'.compose_file, C29_PathOf(config.stack_root))]_vars

\* C29 witness: after the root was changed from /r to /s, a stack created under
\* /s has been read back from there
C29_Witness ==
    /\ config.stack_root = <<"/", "s">>
    /\ last.op = "read"
    /\ last.status = "ok"
    /\ last.compose_file = << <<"s">>, Name_a, Seg("docker-compose.yaml") >>

\* ------------------------------------------------- claims: one writer at a time
\* C27: at no moment do two activities of a session (handler, worker thread,
\* output pump, input pump) have a write to the client connection in flight, and
\* the input pump never writes to it.
C27_OneWriter ==
    /\ Cardinality(conn.writers) <= 1
    /\ "input" \notin conn.writers
    /\ \A i \in 1..Len(hist) : hist[i].ev \in {"send", "error", "close"} => hist[i].arg # "input"

\* C27 witness: the handler's error notification is in flight in a deploy session
\* whose worker thread has sent a line and then closed the connection itself
C27_Witness ==
    /\ sess.kind = "deploy"
    /\ conn.writers = {"handler"}
    /\ sess.pc = "error_sending"
    /\ \E i \in 1..Len(hist) : hist[i] = Event("send", "worker", "ok")
    /\ \E i \in 1..Len(hist) : hist[i].ev = "close" /\ hist[i].arg = "worker"

====
